---- MODULE Spec2Model ----
(***************************************************************************)
(* A model of the doubly linked Dequeue and its CursorMut                  *)
(* (src/src/dequeue.rs).                                                   *)
(*                                                                         *)
(* The heap is a fixed pool of Node cells (next, prev, value) and the set  *)
(* alloc of the cells that are currently allocated.  A Dequeue is a record *)
(* (head, tail, len) held in a slot of deques; live is the set of slots    *)
(* that hold a Dequeue value.  At most one CursorMut exists; it borrows    *)
(* the deque in slot cursor.dq.                                            *)
(***************************************************************************)
EXTENDS Integers, Sequences, FiniteSets, TLC

\* Bounds of the model.
MaxNodes == 4
MaxDeques == 2
\* The largest value of a usize in the model (usize::MAX in the program).
UsizeMax == 7
\* A run stops after more than MaxDamage operations have ended in a damaged
\* state (a deque that is no proper list, a stale cursor index, a lost cell).
MaxDamage == 1
\* The values a run pushes onto or inserts into the Vector, and the largest
\* capacity its buffer grows to.
MaxPush == 4
MaxCap == 4

\* Link<T> = Option<NonNull<Node<T>>>: None is 0, Some(n) is the node n.
None == 0
\* Option<usize> of CursorMut::index: None is -1, Some(i) is i.
NoIndex == -1

Nodes == 1..MaxNodes
\* The value a push carries: the cursor never reads or writes a value.
Values == {1}
DequeIds == 1..MaxDeques

\* Dequeue::new
EmptyDeque == [head |-> None, tail |-> None, len |-> 0]
\* No CursorMut exists.
NoCursor == [dq |-> 0, current |-> None, index |-> NoIndex]

\* A value of the Vector's element type is told apart by the push or insert
\* that brought it in.  A slot of the buffer holds one of them, or nothing
\* yet (Uninit), or what lies behind the allocation (Junk).
Tokens == 1..MaxPush
Uninit == 0
Junk == -1
\* The address NonNull::dangling() gives for a zero-sized type.
Dangling == 1

\* No Vector yet, no iterator over it, no value moved, no buffer released.
NoVec == [alive |-> FALSE, zst |-> FALSE, buf |-> <<>>, cap |-> 0, len |-> 0]
NoIter == [kind |-> "none", start |-> 0, end |-> 0, had |-> <<>>, ok |-> TRUE,
           front |-> <<>>, back |-> <<>>]
NoAcct == [pushed |-> [t \in Tokens |-> 0], given |-> [t \in Tokens |-> 0],
           torn |-> [t \in Tokens |-> 0], freed |-> 0]

\* The Queue (and LinkedList): len is a u32, while the nodes are as many as
\* the heap holds, more than a u32 counts.
U32Max == 3
QNodes == 1..MaxPush
NoQueue ==
    [alive |-> FALSE, head |-> None, tail |-> None, len |-> 0,
     next |-> [n \in QNodes |-> None], value |-> [n \in QNodes |-> 0], alloc |-> {}]

\* The BinaryTree: its values are the keys 1..MaxKey, its nodes as many.
MaxKey == 4
Keys == 1..MaxKey
TNodes == 1..MaxKey
NoTree ==
    [alive |-> FALSE, glue |-> FALSE, root |-> None, size |-> 0,
     value_inserted |-> FALSE, value_removed |-> FALSE,
     left |-> [n \in TNodes |-> None], right |-> [n \in TNodes |-> None],
     value |-> [n \in TNodes |-> 0], alloc |-> {}, dead |-> {}]

VARIABLES
    next,     \* next[n]: Node::next of cell n
    prev,     \* prev[n]: Node::prev of cell n
    value,    \* value[n]: Node::value of cell n
    alloc,    \* the cells that are allocated (Box::into_raw .. Box::from_raw)
    deques,   \* deques[d]: the Dequeue in slot d
    live,     \* the slots that hold a Dequeue
    cursor,   \* the CursorMut (dq = 0: none)
    status,   \* "running", "panic" (a Rust panic), "ub" (a trapped invalid access), "hang"
    ub,       \* an access to a cell that is not allocated has happened
    build,    \* what the run has shown of the build so far
    damage,   \* the operations that ended in a damaged state so far
    last,     \* the last operation, with what it saw before it ran
    vec,      \* the Vector: its Buffer (buf, cap) and len
    iter,     \* the Drain of the Vector (its RawIter), while there is one
    acct,     \* per value: how often it was pushed, given to the caller, torn down
    log,      \* the values that went into and came out of the ends of a deque
    queue,    \* the Queue and its nodes
    tree,     \* the BinaryTree and its nodes
    abs       \* the sequence the one deque stands for

dequevars == <<next, prev, value, alloc, deques, live, cursor>>
vecvars == <<vec, iter, acct>>
othervars == <<queue, tree, abs>>
vars == <<next, prev, value, alloc, deques, live, cursor, status, ub, build, damage, last,
          vec, iter, acct, log, queue, tree, abs>>

----------------------------------------------------------------------------
\* The build decides two things the source leaves open: whether a usize
\* overflow panics (overflow_checks) and whether an access to a freed cell
\* traps.  A run learns each the first time it matters.
Knobs == {"overflow_checks", "trap"}
AnyBuild == [k \in Knobs |-> "unknown"]
Builds(b) == {c \in [Knobs -> {"on", "off"}] : \A k \in Knobs : b[k] \in {"unknown", c[k]}}
SomeBuild(b) == [k \in Knobs |-> IF b[k] = "unknown" THEN "on" ELSE b[k]]

\* The program state as one record, so that operations compose; b is the
\* build the operation runs in, used the knobs it has consulted.
Mem(b) ==
    [next |-> next, prev |-> prev, value |-> value, alloc |-> alloc,
     deques |-> deques, live |-> live, cursor |-> cursor, status |-> status,
     ub |-> ub, ret |-> None, build |-> b, used |-> {}]

Running(m) == m.status = "running"

\* A panic: the operation stops where it is.
Panic(m) == [m EXCEPT !.status = "panic"]

\* A dereference of the cells ns (or Box::from_raw of them).  A cell that is
\* not allocated is undefined behaviour: the access traps or, in a build
\* that does not notice, reads and writes the stale cell.
Touch(m, ns) ==
    IF ns \subseteq m.alloc THEN m
    ELSE [m EXCEPT !.ub = TRUE, !.used = @ \cup {"trap"},
                   !.status = IF m.build["trap"] = "on" THEN "ub" ELSE @]

\* usize arithmetic: an overflow panics with overflow checks, wraps without.
Overflows(a, b) == a + b > UsizeMax
Underflows(a, b) == a < b
WrapAdd(a, b) == (a + b) % (UsizeMax + 1)
WrapSub(a, b) == (a - b) % (UsizeMax + 1)

\* The state after an arithmetic step that overflowed (bad) or did not.
Checked(m, bad) ==
    IF ~bad THEN m
    ELSE [m EXCEPT !.used = @ \cup {"overflow_checks"},
                   !.status = IF m.build["overflow_checks"] = "on" THEN "panic" ELSE @]

\* self.len += k
AddLen(m, d, k) ==
    LET m0 == Checked(m, Overflows(m.deques[d].len, k)) IN
    IF ~Running(m0) THEN m0 ELSE [m0 EXCEPT !.deques[d].len = WrapAdd(@, k)]

\* self.len -= k
SubLen(m, d, k) ==
    LET m0 == Checked(m, Underflows(m.deques[d].len, k)) IN
    IF ~Running(m0) THEN m0 ELSE [m0 EXCEPT !.deques[d].len = WrapSub(@, k)]

\* The slot a new Dequeue value is put in.
NewSlot(m) == CHOOSE d \in DequeIds \ m.live : \A k \in DequeIds \ m.live : d <= k

----------------------------------------------------------------------------
\* A push_front that links the new cell behind the tail.
PushFrontBehind(m, d, v, node) ==
    LET m0 == [m EXCEPT !.alloc = @ \cup {node}, !.next[node] = None,
                        !.prev[node] = None, !.value[node] = v]
        old_tail == m0.deques[d].tail
        m1 == IF old_tail # None
              THEN Touch([m0 EXCEPT !.next[old_tail] = node,
                                    !.prev[node] = old_tail], {old_tail})
              ELSE [m0 EXCEPT !.deques[d].head = node]
    IN  IF ~Running(m1) THEN m1
        ELSE AddLen([m1 EXCEPT !.deques[d].tail = node], d, 1)

\* Dequeue::push_front; node is the cell Box::new hands out.
push_front(m, d, v, node) ==
    LET m0 == [m EXCEPT !.alloc = @ \cup {node}, !.next[node] = None,
                        !.prev[node] = None, !.value[node] = v]
        old_head == m0.deques[d].head
        m1 == IF old_head # None
              THEN Touch([m0 EXCEPT !.prev[old_head] = node,
                                    !.next[node] = old_head], {old_head})
              ELSE [m0 EXCEPT !.deques[d].tail = node]
    IN  IF ~Running(m1) THEN m1
        ELSE AddLen([m1 EXCEPT !.deques[d].head = node], d, 1)

\* A push_back that links the new cell in front of the head.
PushBackAhead(m, d, v, node) == push_front(m, d, v, node)

\* Dequeue::push_back; node is the cell Box::new hands out.
push_back(m, d, v, node) ==
    LET m0 == [m EXCEPT !.alloc = @ \cup {node}, !.next[node] = None,
                        !.prev[node] = None, !.value[node] = v]
        old_tail == m0.deques[d].tail
        m1 == IF old_tail # None
              THEN Touch([m0 EXCEPT !.next[old_tail] = node,
                                    !.prev[node] = old_tail], {old_tail})
              ELSE [m0 EXCEPT !.deques[d].head = node]
    IN  IF ~Running(m1) THEN m1
        ELSE AddLen([m1 EXCEPT !.deques[d].tail = node], d, 1)

\* Dequeue::pop_front.  The Box of the old head is freed when the closure
\* ends, also when len -= 1 panics.
pop_front(m, d) ==
    LET node == m.deques[d].head IN
    IF node = None THEN [m EXCEPT !.ret = None]
    ELSE
        LET m0 == Touch(m, {node}) IN
        IF ~Running(m0) THEN m0
        ELSE
            LET new_head == m0.next[node]
                m1 == [m0 EXCEPT !.deques[d].head = new_head,
                                 !.ret = m0.value[node]]
                m2 == IF new_head # None
                      THEN Touch([m1 EXCEPT !.prev[new_head] = None], {new_head})
                      ELSE [m1 EXCEPT !.deques[d].tail = None]
                m3 == IF Running(m2) THEN SubLen(m2, d, 1) ELSE m2
            IN  [m3 EXCEPT !.alloc = @ \ {node}]

\* A pop_back that leaves len as it is.
PopBackKeepLen(m, d) ==
    LET node == m.deques[d].tail IN
    IF node = None THEN [m EXCEPT !.ret = None]
    ELSE
        LET m0 == Touch(m, {node}) IN
        IF ~Running(m0) THEN m0
        ELSE
            LET new_tail == m0.prev[node]
                m1 == [m0 EXCEPT !.deques[d].tail = new_tail,
                                 !.ret = m0.value[node]]
                m2 == IF new_tail # None
                      THEN Touch([m1 EXCEPT !.next[new_tail] = None], {new_tail})
                      ELSE [m1 EXCEPT !.deques[d].head = None]
            IN  [m2 EXCEPT !.alloc = @ \ {node}]

\* Dequeue::pop_back
pop_back(m, d) ==
    LET node == m.deques[d].tail IN
    IF node = None THEN [m EXCEPT !.ret = None]
    ELSE
        LET m0 == Touch(m, {node}) IN
        IF ~Running(m0) THEN m0
        ELSE
            LET new_tail == m0.prev[node]
                m1 == [m0 EXCEPT !.deques[d].tail = new_tail,
                                 !.ret = m0.value[node]]
                m2 == IF new_tail # None
                      THEN Touch([m1 EXCEPT !.next[new_tail] = None], {new_tail})
                      ELSE [m1 EXCEPT !.deques[d].head = None]
                m3 == IF Running(m2) THEN SubLen(m2, d, 1) ELSE m2
            IN  [m3 EXCEPT !.alloc = @ \ {node}]

\* while self.pop_front().is_some() {}: the loop of clear and of drop.  More
\* than MaxNodes pops walk a cycle of stale cells: the loop does not end.
RECURSIVE PopAll(_, _, _)
PopAll(m, d, fuel) ==
    IF ~Running(m) \/ m.deques[d].head = None THEN m
    ELSE IF fuel = 0 THEN [m EXCEPT !.status = "hang"]
    ELSE PopAll(pop_front(m, d), d, fuel - 1)

\* A clear that pops once.
ClearOne(m, d) == pop_front(m, d)

\* Dequeue::clear
clear(m, d) == PopAll(m, d, MaxNodes + 1)

\* The slot d holds no Dequeue any more (the value was moved out or dropped).
Vacate(m, d) ==
    [m EXCEPT !.deques[d] = EmptyDeque, !.live = @ \ {d}]

\* Drop for Dequeue
drop(m, d) ==
    LET m0 == PopAll(m, d, MaxNodes + 1) IN
    IF Running(m0) THEN Vacate(m0, d) ELSE m0

----------------------------------------------------------------------------
\* Dequeue::cursor_mut
cursor_mut(m, d) ==
    [m EXCEPT !.cursor = [dq |-> d, current |-> None, index |-> NoIndex]]

\* A move_next that leaves the index as it was.
IndexAfterNextSame(index) == index

\* The index of move_next after a step onto a successor: index.unwrap() += 1
IndexAfterNext(index) == WrapAdd(index, 1)

\* CursorMut::move_next
move_next(m) ==
    LET c == m.cursor
        dq == m.deques[c.dq]
    IN  IF c.current # None
        THEN LET m0 == Touch(m, {c.current}) IN
             IF ~Running(m0) THEN m0
             ELSE LET nx == m0.next[c.current]
                      m1 == [m0 EXCEPT !.cursor.current = nx]
                  IN  IF nx # None
                      THEN IF c.index = NoIndex THEN Panic(m1)
                           ELSE LET m2 == Checked(m1, Overflows(c.index, 1)) IN
                                IF ~Running(m2) THEN m2
                                ELSE [m2 EXCEPT !.cursor.index = IndexAfterNext(c.index)]
                      ELSE [m1 EXCEPT !.cursor.index = NoIndex]
        ELSE IF dq.len # 0
        THEN [m EXCEPT !.cursor.current = dq.head, !.cursor.index = 0]
        ELSE m

\* The index of move_prev after a step onto a predecessor: index.unwrap() -= 1
IndexAfterPrev(index) == WrapSub(index, 1)

\* An index of the tail that counts from one.
IndexOfTailLen(len) == len

\* The index of move_prev when it steps from Ghost onto the tail.
IndexOfTail(len) == WrapSub(len, 1)

\* CursorMut::move_prev
move_prev(m) ==
    LET c == m.cursor
        dq == m.deques[c.dq]
    IN  IF c.current # None
        THEN LET m0 == Touch(m, {c.current}) IN
             IF ~Running(m0) THEN m0
             ELSE LET pv == m0.prev[c.current]
                      m1 == [m0 EXCEPT !.cursor.current = pv]
                  IN  IF pv # None
                      THEN IF c.index = NoIndex THEN Panic(m1)
                           ELSE LET m2 == Checked(m1, Underflows(c.index, 1)) IN
                                IF ~Running(m2) THEN m2
                                ELSE [m2 EXCEPT !.cursor.index = IndexAfterPrev(c.index)]
                      ELSE [m1 EXCEPT !.cursor.index = NoIndex]
        ELSE IF dq.len # 0
        THEN [m EXCEPT !.cursor.current = dq.tail, !.cursor.index = IndexOfTail(dq.len)]
        ELSE m

\* A split at Ghost that returns the Dequeue and keeps it too.
SplitAtGhostCopy(m, r) ==
    [m EXCEPT !.deques[r] = m.deques[m.cursor.dq],
              !.live = @ \cup {r},
              !.ret = r]

\* std::mem::replace(self.dequeue, Dequeue::new()): the split at Ghost.
\* The whole Dequeue value moves to the slot r of the caller.
SplitAtGhost(m, r) ==
    [m EXCEPT !.deques[r] = m.deques[m.cursor.dq],
              !.deques[m.cursor.dq] = EmptyDeque,
              !.live = @ \cup {r},
              !.ret = r]

\* A split_before that does not move the head of self.dequeue.
SplitBeforeKeptOldHead(dq, current, old_idx) ==
    [head |-> dq.head, tail |-> dq.tail, len |-> WrapSub(dq.len, old_idx)]

\* split_before on a node: what self.dequeue becomes (new_*).
SplitBeforeKept(dq, current, old_idx) ==
    [head |-> current, tail |-> dq.tail, len |-> WrapSub(dq.len, old_idx)]

\* A split_before that gives the returned Dequeue the length of the kept one.
SplitBeforeOutputKeptLen(dq, prv, old_idx) ==
    [head |-> dq.head, tail |-> prv, len |-> WrapSub(dq.len, old_idx)]

\* split_before on a node: the Dequeue returned (output_*).
SplitBeforeOutput(dq, prv, old_idx) ==
    [head |-> dq.head, tail |-> prv,
     len |-> WrapSub(dq.len, WrapSub(dq.len, old_idx))]

\* CursorMut::split_before; r is the slot that receives the returned Dequeue.
split_before(m, r) ==
    LET c == m.cursor
        d == c.dq
        dq == m.deques[d]
    IN  IF c.current = None THEN SplitAtGhost(m, r)
        ELSE IF c.index = NoIndex THEN Panic(m)
        ELSE LET m0 == Touch(m, {c.current}) IN
             IF ~Running(m0) THEN m0
             ELSE LET prv == m0.prev[c.current]
                      kept == SplitBeforeKept(dq, c.current, c.index)
                      output == SplitBeforeOutput(dq, prv, c.index)
                      mc == Checked(m0, Underflows(dq.len, c.index)
                                        \/ Underflows(dq.len, kept.len))
                  IN  IF ~Running(mc) THEN mc
                      ELSE LET m1 == IF prv # None
                                     THEN Touch([mc EXCEPT !.prev[c.current] = None,
                                                           !.next[prv] = None], {prv})
                                     ELSE mc
                           IN  IF ~Running(m1) THEN m1
                               ELSE [m1 EXCEPT !.deques[d] = kept,
                                               !.cursor.index = 0,
                                               !.deques[r] = output,
                                               !.live = @ \cup {r},
                                               !.ret = r]

\* split_after on a node: what self.dequeue becomes (new_*).
SplitAfterKept(dq, current, old_idx) ==
    [head |-> dq.head, tail |-> current, len |-> WrapAdd(old_idx, 1)]

\* A split_after that counts the current node into the returned Dequeue.
SplitAfterOutputOffByOne(dq, nx, old_idx) ==
    [head |-> nx, tail |-> dq.tail, len |-> WrapSub(dq.len, old_idx)]

\* split_after on a node: the Dequeue returned (output_*).
SplitAfterOutput(dq, nx, old_idx) ==
    [head |-> nx, tail |-> dq.tail, len |-> WrapSub(dq.len, WrapAdd(old_idx, 1))]

\* CursorMut::split_after; r is the slot that receives the returned Dequeue.
split_after(m, r) ==
    LET c == m.cursor
        d == c.dq
        dq == m.deques[d]
    IN  IF c.current = None THEN SplitAtGhost(m, r)
        ELSE IF c.index = NoIndex THEN Panic(m)
        ELSE LET m0 == Touch(m, {c.current}) IN
             IF ~Running(m0) THEN m0
             ELSE LET nx == m0.next[c.current]
                      kept == SplitAfterKept(dq, c.current, c.index)
                      output == SplitAfterOutput(dq, nx, c.index)
                      mc == Checked(m0, Overflows(c.index, 1)
                                        \/ Underflows(dq.len, kept.len))
                  IN  IF ~Running(mc) THEN mc
                      ELSE LET m1 == IF nx # None
                                     THEN Touch([mc EXCEPT !.next[c.current] = None,
                                                           !.prev[nx] = None], {nx})
                                     ELSE mc
                           IN  IF ~Running(m1) THEN m1
                               ELSE [m1 EXCEPT !.deques[d] = kept,
                                               !.cursor.index = c.index,
                                               !.deques[r] = output,
                                               !.live = @ \cup {r},
                                               !.ret = r]

\* input.head.take() and input.tail.take(): input gives up its cells.
TakeInput(m, o) ==
    [m EXCEPT !.deques[o].head = None, !.deques[o].tail = None]

\* A splice_before on a node that forgets the back link of input's head.
SpliceBeforeAtNodeNoBackLink(m, d, current, input_head, input_tail) ==
    LET prv == m.prev[current] IN
    IF prv # None
    THEN Touch([m EXCEPT !.next[prv] = input_head,
                         !.prev[current] = input_tail,
                         !.next[input_tail] = current],
               {prv, input_head, input_tail})
    ELSE Touch([m EXCEPT !.prev[current] = input_tail,
                         !.next[input_tail] = current,
                         !.deques[d].head = input_head],
               {input_tail})

\* The links of splice_before with the cursor on a node (input is not empty).
SpliceBeforeAtNode(m, d, current, input_head, input_tail) ==
    LET prv == m.prev[current] IN
    IF prv # None
    THEN Touch([m EXCEPT !.next[prv] = input_head,
                         !.prev[input_head] = prv,
                         !.prev[current] = input_tail,
                         !.next[input_tail] = current],
               {prv, input_head, input_tail})
    ELSE Touch([m EXCEPT !.prev[current] = input_tail,
                         !.next[input_tail] = current,
                         !.deques[d].head = input_head],
               {input_tail})

\* A splice_before at Ghost that forgets to move the tail.
SpliceBeforeAtGhostOldTail(m, d, input_head, input_tail) ==
    LET tl == m.deques[d].tail IN
    IF tl = None THEN Panic(m)
    ELSE Touch([m EXCEPT !.next[tl] = input_head,
                         !.prev[input_head] = tl],
               {tl, input_head})

\* The links of splice_before at Ghost: input goes behind the tail.
SpliceBeforeAtGhost(m, d, input_head, input_tail) ==
    LET tl == m.deques[d].tail IN
    IF tl = None THEN Panic(m)
    ELSE Touch([m EXCEPT !.next[tl] = input_head,
                         !.prev[input_head] = tl,
                         !.deques[d].tail = input_tail],
               {tl, input_head})

\* A splice that counts input as one element.
SpliceLenOne(m, d, input_len) == AddLen(m, d, 1)

\* The length after a splice: self.dequeue.len += input.len
SpliceLen(m, d, input_len) == AddLen(m, d, input_len)

\* *self.dequeue = input: the old value of the cursor's deque is dropped and
\* input moves into its place.
SpliceIntoEmpty(m, d, o) ==
    LET m0 == PopAll(m, d, MaxNodes + 1) IN
    IF ~Running(m0) THEN m0
    ELSE Vacate([m0 EXCEPT !.deques[d] = m.deques[o]], o)

\* CursorMut::splice_before; o is the slot of the Dequeue passed by value,
\* which is dropped when the function returns.
splice_before(m, o) ==
    LET c == m.cursor
        d == c.dq
        input == m.deques[o]
    IN  IF input.len = 0 THEN drop(m, o)
        ELSE IF m.deques[d].len = 0 THEN SpliceIntoEmpty(m, d, o)
        ELSE IF input.head = None \/ input.tail = None THEN Panic(m)
        ELSE LET mi == TakeInput(m, o)
                 m1 == IF c.current # None
                       THEN LET m0 == Touch(mi, {c.current}) IN
                            IF ~Running(m0) THEN m0
                            ELSE SpliceBeforeAtNode(m0, d, c.current,
                                                    input.head, input.tail)
                       ELSE SpliceBeforeAtGhost(mi, d, input.head, input.tail)
                 m2 == IF Running(m1) THEN SpliceLen(m1, d, input.len) ELSE m1
             IN  IF ~Running(m2) THEN m2
                 ELSE drop([m2 EXCEPT !.deques[o].len = 0], o)

\* The links of splice_after with the cursor on a node (input is not empty).
SpliceAfterAtNode(m, d, current, input_head, input_tail) ==
    LET nx == m.next[current] IN
    IF nx # None
    THEN Touch([m EXCEPT !.prev[nx] = input_tail,
                         !.next[input_tail] = nx,
                         !.next[current] = input_head,
                         !.prev[input_head] = current],
               {nx, input_head, input_tail})
    ELSE Touch([m EXCEPT !.next[current] = input_head,
                         !.prev[input_head] = current,
                         !.deques[d].tail = input_tail],
               {input_head})

\* A splice_after at Ghost that links input behind the tail, as
\* splice_before does.
SpliceAfterAtGhostBehind(m, d, input_head, input_tail) ==
    LET tl == m.deques[d].tail IN
    IF tl = None THEN Panic(m)
    ELSE Touch([m EXCEPT !.next[tl] = input_head,
                         !.prev[input_head] = tl,
                         !.deques[d].tail = input_tail],
               {tl, input_head})

\* The links of splice_after at Ghost: input goes in front of the head.
SpliceAfterAtGhost(m, d, input_head, input_tail) ==
    LET hd == m.deques[d].head IN
    IF hd = None THEN Panic(m)
    ELSE Touch([m EXCEPT !.prev[hd] = input_tail,
                         !.next[input_tail] = hd,
                         !.deques[d].head = input_head],
               {hd, input_tail})

\* CursorMut::splice_after; o is the slot of the Dequeue passed by value,
\* which is dropped when the function returns.
splice_after(m, o) ==
    LET c == m.cursor
        d == c.dq
        input == m.deques[o]
    IN  IF input.len = 0 THEN drop(m, o)
        ELSE IF m.deques[d].len = 0 THEN SpliceIntoEmpty(m, d, o)
        ELSE IF input.head = None \/ input.tail = None THEN Panic(m)
        ELSE LET mi == TakeInput(m, o)
                 m1 == IF c.current # None
                       THEN LET m0 == Touch(mi, {c.current}) IN
                            IF ~Running(m0) THEN m0
                            ELSE SpliceAfterAtNode(m0, d, c.current,
                                                   input.head, input.tail)
                       ELSE SpliceAfterAtGhost(mi, d, input.head, input.tail)
                 m2 == IF Running(m1) THEN SpliceLen(m1, d, input.len) ELSE m1
             IN  IF ~Running(m2) THEN m2
                 ELSE drop([m2 EXCEPT !.deques[o].len = 0], o)

----------------------------------------------------------------------------
\* link.map(|node| &mut (*node.as_ptr()).value): a reference to the value of
\* the cell node, none if node is none.
ValueOf(m, node) ==
    IF node = None THEN [m EXCEPT !.ret = None]
    ELSE LET m0 == Touch(m, {node}) IN
         IF ~Running(m0) THEN m0 ELSE [m0 EXCEPT !.ret = node]

\* CursorMut::current
current(m) == ValueOf(m, m.cursor.current)

\* A peek_next that at Ghost looks at the tail.
PeekNextLinkTail(m) ==
    IF m.cursor.current # None THEN m.next[m.cursor.current]
    ELSE m.deques[m.cursor.dq].tail

\* The link peek_next looks through: current.next, at Ghost the head.
PeekNextLink(m) ==
    IF m.cursor.current # None THEN m.next[m.cursor.current]
    ELSE m.deques[m.cursor.dq].head

\* CursorMut::peek_next
peek_next(m) ==
    LET m0 == IF m.cursor.current # None THEN Touch(m, {m.cursor.current}) ELSE m
    IN  IF ~Running(m0) THEN m0 ELSE ValueOf(m0, PeekNextLink(m0))

\* The link peek_prev looks through: current.prev, at Ghost the tail.
PeekPrevLink(m) ==
    IF m.cursor.current # None THEN m.prev[m.cursor.current]
    ELSE m.deques[m.cursor.dq].tail

\* CursorMut::peek_prev
peek_prev(m) ==
    LET m0 == IF m.cursor.current # None THEN Touch(m, {m.cursor.current}) ELSE m
    IN  IF ~Running(m0) THEN m0 ELSE ValueOf(m0, PeekPrevLink(m0))

\* What a traversal reads: the cells met from n along the links f, at most
\* MaxNodes + 1 of them.
RECURSIVE Walk(_, _, _)
Walk(f, n, fuel) ==
    IF n = None \/ fuel = 0 THEN <<>>
    ELSE <<n>> \o Walk(f, f[n], fuel - 1)

Forward(m, dq) == Walk(m.next, dq.head, MaxNodes + 1)
Backward(m, dq) == Walk(m.prev, dq.tail, MaxNodes + 1)

Reverse(s) == [i \in 1..Len(s) |-> s[Len(s) + 1 - i]]
Range(s) == {s[i] : i \in 1..Len(s)}

\* The position of the cell n in the sequence s (0-based), -1 if it is not in it.
Position(s, n) ==
    IF n \in Range(s) THEN (CHOOSE i \in 1..Len(s) : s[i] = n) - 1 ELSE -1

\* The Dequeue value dq is a proper list of len allocated cells.
Proper(m, dq) ==
    LET f == Forward(m, dq) IN
    /\ Len(f) = dq.len
    /\ Cardinality(Range(f)) = Len(f)
    /\ Range(f) \subseteq m.alloc
    /\ Backward(m, dq) = Reverse(f)
    /\ dq.head # None => m.prev[dq.head] = None
    /\ dq.tail # None => m.next[dq.tail] = None

\* Every deque is a proper list, every allocated cell is in exactly one of
\* them, and the cursor is at Ghost or on a cell of its deque, with the
\* index of that cell.
Sound(m) ==
    /\ \A d \in m.live : Proper(m, m.deques[d])
    /\ \A d, e \in m.live :
          d # e => Range(Forward(m, m.deques[d])) \cap Range(Forward(m, m.deques[e])) = {}
    /\ m.alloc = UNION {Range(Forward(m, m.deques[d])) : d \in m.live}
    /\ m.cursor.dq # 0 =>
          /\ m.cursor.dq \in m.live
          /\ IF m.cursor.current = None THEN m.cursor.index = NoIndex
             ELSE /\ m.cursor.index # NoIndex
                  /\ Position(Forward(m, m.deques[m.cursor.dq]), m.cursor.current)
                        = m.cursor.index

----------------------------------------------------------------------------
\* The last operation: its name, and what it saw before it ran.
\*   dq, fwd:   the cursor's deque and its cells, front to back
\*   cur, idx:  the cursor's current and index
\*   inp, ifwd: the deque passed to a splice and its cells, front to back
\*   ok:        both were proper lists with no cell in common
\*   ret:       what the operation returned (a value, or the slot of a Dequeue)
\*   ref:       the cell whose value a returned reference points to
NoLast ==
    [name |-> "init", dq |-> EmptyDeque, fwd |-> <<>>, cur |-> None,
     idx |-> NoIndex, inp |-> EmptyDeque, ifwd |-> <<>>, ok |-> TRUE,
     ret |-> None, ref |-> None]

Plain(name, m) == [NoLast EXCEPT !.name = name, !.ret = m.ret]

Seen(name, o, m) ==
    LET pre == Mem(build)
        dq == pre.deques[pre.cursor.dq]
        inp == IF o = 0 THEN EmptyDeque ELSE pre.deques[o]
    IN  [name |-> name, dq |-> dq, fwd |-> Forward(pre, dq),
         cur |-> pre.cursor.current, idx |-> pre.cursor.index,
         inp |-> inp, ifwd |-> Forward(pre, inp),
         ok |-> /\ Proper(pre, dq) /\ Proper(pre, inp)
                /\ Range(Forward(pre, dq)) \cap Range(Forward(pre, inp)) = {},
         ret |-> m.ret, ref |-> None]

\* The same for an operation that returns a reference to a value.
Looked(name, m) ==
    [Seen(name, 0, m) EXCEPT !.ref = m.ret,
                             !.ret = IF m.ret = None THEN None ELSE m.value[m.ret]]

----------------------------------------------------------------------------
\* The address of a cell means nothing to the program: states that differ
\* only in which cell is which are one state.  The cells are numbered in the
\* order in which the deques reach them.
RECURSIVE Dedupe(_, _)
Dedupe(s, seen) ==
    IF s = <<>> THEN <<>>
    ELSE IF Head(s) = None \/ Head(s) \in seen THEN Dedupe(Tail(s), seen)
    ELSE <<Head(s)>> \o Dedupe(Tail(s), seen \cup {Head(s)})

RECURSIVE Ascending(_)
Ascending(S) ==
    IF S = {} THEN <<>>
    ELSE LET x == CHOOSE y \in S : \A z \in S : y <= z IN <<x>> \o Ascending(S \ {x})

RECURSIVE Reached(_, _)
Reached(m, d) ==
    IF d > MaxDeques THEN <<>>
    ELSE Forward(m, m.deques[d]) \o Backward(m, m.deques[d]) \o Reached(m, d + 1)

Order(m) ==
    Dedupe(Reached(m, 1) \o <<m.cursor.current>> \o Ascending(m.alloc)
           \o Ascending(Nodes), {})

\* The new number of the cell n under the order ord.
Renamed(ord, n) == IF n = None THEN None ELSE CHOOSE i \in Nodes : ord[i] = n

RenamedDeque(ord, dq) ==
    [head |-> Renamed(ord, dq.head), tail |-> Renamed(ord, dq.tail), len |-> dq.len]

RenamedSeq(ord, s) == [i \in 1..Len(s) |-> Renamed(ord, s[i])]

\* A cell that was freed and that no link leads to any more can never be
\* read again: its stale content is forgotten.
Referenced(m) ==
    {m.deques[d].head : d \in m.live} \cup {m.deques[d].tail : d \in m.live}
    \cup {m.cursor.current}
    \cup {m.next[n] : n \in Nodes} \cup {m.prev[n] : n \in Nodes}

RECURSIVE Scrub(_, _)
Scrub(m, fuel) ==
    LET gone == {n \in Nodes : n \notin m.alloc /\ n \notin Referenced(m)
                               /\ (m.next[n] # None \/ m.prev[n] # None
                                   \/ m.value[n] # 0)}
    IN  IF gone = {} \/ fuel = 0 THEN m
        ELSE Scrub([m EXCEPT !.next = [n \in Nodes |-> IF n \in gone THEN None ELSE @[n]],
                             !.prev = [n \in Nodes |-> IF n \in gone THEN None ELSE @[n]],
                             !.value = [n \in Nodes |-> IF n \in gone THEN 0 ELSE @[n]]],
                   fuel - 1)

\* The cells Box::new may hand out: a freed cell that stale links still lead
\* to, or a cell nothing refers to (they are all alike: the first of them).
Fresh(m) ==
    LET free == Nodes \ m.alloc
        stale == free \cap Referenced(m)
        clean == free \ stale
    IN  stale \cup (IF clean = {} THEN {}
                    ELSE {CHOOSE n \in clean : \A k \in clean : n <= k})

\* The deques, the cursor and the run after an operation that ended in m; l
\* describes the operation.
CommitDeque(m0, l) ==
    \E m \in {Scrub(m0, MaxNodes)} : \E ord \in {Order(m)} :
        /\ next' = [i \in Nodes |-> Renamed(ord, m.next[ord[i]])]
        /\ prev' = [i \in Nodes |-> Renamed(ord, m.prev[ord[i]])]
        /\ value' = [i \in Nodes |-> m.value[ord[i]]]
        /\ alloc' = {Renamed(ord, n) : n \in m.alloc}
        /\ deques' = [d \in DequeIds |-> RenamedDeque(ord, m.deques[d])]
        /\ live' = m.live
        /\ cursor' = [m.cursor EXCEPT !.current = Renamed(ord, @)]
        /\ status' = m.status
        /\ ub' = m.ub
        /\ build' = [k \in Knobs |-> IF k \in m.used THEN m.build[k] ELSE build[k]]
        /\ damage' = IF Sound(m) THEN damage ELSE damage + 1
        /\ last' = [l EXCEPT !.dq = RenamedDeque(ord, @),
                             !.fwd = RenamedSeq(ord, @),
                             !.cur = Renamed(ord, @),
                             !.inp = RenamedDeque(ord, @),
                             !.ifwd = RenamedSeq(ord, @),
                             !.ref = Renamed(ord, @)]

\* The state after an operation that ended in m and moved no value that is
\* kept track of.
Commit(m0, l) == CommitDeque(m0, l) /\ UNCHANGED <<vecvars, log, othervars>>

\* An operation runs: in the build the run has shown so far, or, when the
\* operation is the first to depend on a knob, in each build that fits.
CanRun == status = "running" /\ damage <= MaxDamage

Init ==
    /\ next = [n \in Nodes |-> None]
    /\ prev = [n \in Nodes |-> None]
    /\ value = [n \in Nodes |-> 0]
    /\ alloc = {}
    /\ deques = [d \in DequeIds |-> EmptyDeque]
    /\ live = {}
    /\ cursor = NoCursor
    /\ status = "running"
    /\ ub = FALSE
    /\ build = AnyBuild
    /\ damage = 0
    /\ last = NoLast
    /\ vec = NoVec
    /\ iter = NoIter
    /\ acct = NoAcct
    /\ log = <<>>
    /\ queue = NoQueue
    /\ tree = NoTree
    /\ abs = <<>>

\* The deques the caller can use directly: not borrowed by the cursor.
Free == live \ {cursor.dq}
HasCursor == cursor.dq # 0

\* Op runs in the build the run has shown so far or, when Op is the first
\* to depend on a knob, in each build that fits; L describes it.
Try(Op(_), L(_)) ==
    \E m0 \in {Op(Mem(SomeBuild(build)))} :
       IF m0.used = {} THEN \E l \in {L(m0)} : Commit(m0, l)
       ELSE \E b \in Builds(build) :
               \E m \in {Op(Mem(b))} : \E l \in {L(m)} : Commit(m, l)

\* let d = Dequeue::new()
New ==
    /\ CanRun /\ live # DequeIds
    /\ Try(LAMBDA m : [m EXCEPT !.live = @ \cup {NewSlot(m)},
                                !.deques[NewSlot(m)] = EmptyDeque],
           LAMBDA m : Plain("new", m))

PushFront ==
    /\ CanRun
    /\ \E d \in Free, v \in Values :
          \E node \in Fresh(Mem(build)) :
             Try(LAMBDA m : push_front(m, d, v, node),
                 LAMBDA m : Plain("push_front", m))

PushBack ==
    /\ CanRun
    /\ \E d \in Free, v \in Values :
          \E node \in Fresh(Mem(build)) :
             Try(LAMBDA m : push_back(m, d, v, node),
                 LAMBDA m : Plain("push_back", m))

PopFront ==
    /\ CanRun
    /\ \E d \in Free :
          Try(LAMBDA m : pop_front(m, d), LAMBDA m : Plain("pop_front", m))

PopBack ==
    /\ CanRun
    /\ \E d \in Free :
          Try(LAMBDA m : pop_back(m, d), LAMBDA m : Plain("pop_back", m))

Clear ==
    /\ CanRun
    /\ \E d \in Free :
          Try(LAMBDA m : clear(m, d), LAMBDA m : Plain("clear", m))

\* The Dequeue in slot d goes out of scope.
Drop ==
    /\ CanRun
    /\ \E d \in Free :
          Try(LAMBDA m : drop(m, d), LAMBDA m : Plain("drop", m))

CursorMut ==
    /\ CanRun /\ ~HasCursor
    /\ \E d \in live :
          Try(LAMBDA m : cursor_mut(m, d), LAMBDA m : Plain("cursor_mut", m))

\* The CursorMut goes out of scope: the borrow of its deque ends.
Release ==
    /\ CanRun /\ HasCursor
    /\ Try(LAMBDA m : [m EXCEPT !.cursor = NoCursor], LAMBDA m : Plain("release", m))

MoveNext ==
    /\ CanRun /\ HasCursor
    /\ Try(LAMBDA m : move_next(m), LAMBDA m : Seen("move_next", 0, m))

MovePrev ==
    /\ CanRun /\ HasCursor
    /\ Try(LAMBDA m : move_prev(m), LAMBDA m : Seen("move_prev", 0, m))

SplitBefore ==
    /\ CanRun /\ HasCursor /\ live # DequeIds
    /\ Try(LAMBDA m : split_before(m, NewSlot(m)), LAMBDA m : Seen("split_before", 0, m))

SplitAfter ==
    /\ CanRun /\ HasCursor /\ live # DequeIds
    /\ Try(LAMBDA m : split_after(m, NewSlot(m)), LAMBDA m : Seen("split_after", 0, m))

SpliceBefore ==
    /\ CanRun /\ HasCursor
    /\ \E o \in Free :
          Try(LAMBDA m : splice_before(m, o), LAMBDA m : Seen("splice_before", o, m))

SpliceAfter ==
    /\ CanRun /\ HasCursor
    /\ \E o \in Free :
          Try(LAMBDA m : splice_after(m, o), LAMBDA m : Seen("splice_after", o, m))

Next ==
    \/ New \/ PushFront \/ PushBack \/ PopFront \/ PopBack \/ Clear \/ Drop
    \/ CursorMut \/ Release
    \/ MoveNext \/ MovePrev
    \/ SplitBefore \/ SplitAfter \/ SpliceBefore \/ SpliceAfter

Spec == Init /\ [][Next]_vars

\* The cursor is asked for its value and for the values next to it.
Current ==
    /\ CanRun /\ HasCursor
    /\ Try(LAMBDA m : current(m), LAMBDA m : Looked("current", m))

PeekNext ==
    /\ CanRun /\ HasCursor
    /\ Try(LAMBDA m : peek_next(m), LAMBDA m : Looked("peek_next", m))

PeekPrev ==
    /\ CanRun /\ HasCursor
    /\ Try(LAMBDA m : peek_prev(m), LAMBDA m : Looked("peek_prev", m))

\* The looks of the cursor, among the operations that build deques, move
\* the cursor over them, and split, splice and drop them.
PeekStep ==
    \/ New \/ PushFront \/ PushBack \/ Drop
    \/ CursorMut \/ Release
    \/ MoveNext \/ MovePrev
    \/ SplitBefore \/ SpliceBefore
    \/ Current \/ PeekNext \/ PeekPrev

PeekSpec == Init /\ [][PeekStep]_vars

\* The Dequeues in the slots ds go out of scope one after the other.
RECURSIVE DropAll(_, _)
DropAll(m, ds) ==
    IF ds = <<>> \/ ~Running(m) THEN m
    ELSE DropAll(drop(m, Head(ds)), Tail(ds))

\* The orders in which the Dequeues in the slots S can go out of scope.
Orders(S) ==
    {ds \in [1..Cardinality(S) -> S] : \A i, j \in 1..Cardinality(S) : ds[i] = ds[j] => i = j}

\* The scope ends: the CursorMut goes, then every Dequeue is dropped.
Destroy ==
    /\ CanRun /\ live # {}
    /\ \E ds \in Orders(live) :
          Try(LAMBDA m : DropAll([m EXCEPT !.cursor = NoCursor], ds),
              LAMBDA m : Plain("destroy", m))

\* Deques that are built, cut and joined through a cursor, and destroyed
\* together at the end.
DropStep ==
    \/ New \/ PushBack \/ PopFront
    \/ CursorMut \/ MoveNext
    \/ SplitBefore \/ SplitAfter \/ SpliceBefore \/ SpliceAfter
    \/ Destroy

DropSpec == Init /\ [][DropStep]_vars

----------------------------------------------------------------------------
\* The Vector of vector.rs.  The state as one record, as for the deques; ret
\* is what the operation returned (<<>> for None, <<v>> for Some(v) or v),
\* grew whether it grew the buffer.
VMem(b) ==
    [vec |-> vec, iter |-> iter, acct |-> acct, status |-> status, ub |-> ub,
     ret |-> <<>>, grew |-> FALSE, halt |-> "", build |-> b, used |-> {}]

\* An access the language does not define (a slot outside the allocation, a
\* slot that holds no value read as one): it traps or, in a build that does
\* not notice, goes on with what is there.
Invalid(w) ==
    [w EXCEPT !.ub = TRUE, !.used = @ \cup {"trap"},
              !.status = IF w.build["trap"] = "on" THEN "ub" ELSE @]

\* assert!(.., msg) fails: a panic with the message msg.
Halt(w, msg) == [Panic(w) EXCEPT !.halt = msg]

\* The one value of a zero-sized type.
ZstValue == 1

\* A Buffer::new that knows no zero-sized types.
BufferNewZero(zst) == 0

\* Buffer::new: the capacity of the empty buffer.
BufferNew(zst) == IF zst THEN UsizeMax ELSE 0

\* Vector::new, for an element type that is zero-sized (zst) or not.
new(w, zst) ==
    [w EXCEPT !.vec = [alive |-> TRUE, zst |-> zst, buf |-> <<>>,
                       cap |-> BufferNew(zst), len |-> 0]]

\* alloc / realloc: a buffer of new_cap slots that keeps what the old one held.
Realloc(buf, new_cap) ==
    [i \in 1..new_cap |-> IF i <= Len(buf) THEN buf[i] ELSE Uninit]

\* A grow that adds one slot where the buffer should double.
GrowByOne(w) ==
    IF w.vec.zst THEN Halt(w, "Capacity overflow")
    ELSE [w EXCEPT !.vec.buf = Realloc(@, w.vec.cap + 1), !.vec.cap = w.vec.cap + 1,
                   !.grew = TRUE]

\* Buffer::grow
grow(w) ==
    IF w.vec.zst THEN Halt(w, "Capacity overflow")
    ELSE IF w.vec.cap = 0
    THEN [w EXCEPT !.vec.buf = Realloc(@, 1), !.vec.cap = 1, !.grew = TRUE]
    ELSE LET w0 == Checked(w, Overflows(w.vec.cap, w.vec.cap))
             new_cap == WrapAdd(w.vec.cap, w.vec.cap)
         IN  IF ~Running(w0) THEN w0
             ELSE [w0 EXCEPT !.vec.buf = Realloc(@, new_cap), !.vec.cap = new_cap,
                             !.grew = TRUE]

\* What slot i holds (ptr.add(i)); a zero-sized type has no slots.
At(w, i) ==
    IF w.vec.zst THEN ZstValue
    ELSE IF i < Len(w.vec.buf) THEN w.vec.buf[i + 1] ELSE Junk

\* ptr::read(ptr.add(i)): slot i is read as a value.
Reading(w, i) == IF At(w, i) \in Tokens THEN w ELSE Invalid(w)

\* ptr::write(ptr.add(i), value)
Write(w, i, v) ==
    IF w.vec.zst THEN w
    ELSE IF i < Len(w.vec.buf) THEN [w EXCEPT !.vec.buf[i + 1] = v]
    ELSE Invalid(w)

\* ptr::copy(ptr.add(src), ptr.add(dst), count): count slots move, as by
\* memmove; a slot outside the allocation is an invalid access.
Copy(w, src, dst, count) ==
    IF w.vec.zst \/ count = 0 THEN w
    ELSE LET buf == w.vec.buf
             cap == Len(buf)
             w0 == IF src + count <= cap /\ dst + count <= cap THEN w ELSE Invalid(w)
         IN  IF ~Running(w0) THEN w0
             ELSE [w0 EXCEPT !.vec.buf =
                      [j \in 1..cap |->
                          IF j - 1 >= dst /\ j - 1 < dst + count
                          THEN IF src + (j - 1 - dst) < cap
                               THEN buf[src + (j - 1 - dst) + 1] ELSE Junk
                          ELSE buf[j]]]

\* The books: a value comes in by push or insert, goes to the caller, or is
\* torn down (its destructor runs).
Pushed(w, v) == [w EXCEPT !.acct.pushed[v] = @ + 1]
Give(w, v) == IF v \in Tokens THEN [w EXCEPT !.acct.given[v] = @ + 1] ELSE w
Tear(w, v) == IF v \in Tokens THEN [w EXCEPT !.acct.torn[v] = @ + 1] ELSE w

\* self.len += 1
LenPlusOne(w) ==
    LET w0 == Checked(w, Overflows(w.vec.len, 1)) IN
    IF ~Running(w0) THEN w0 ELSE [w0 EXCEPT !.vec.len = WrapAdd(@, 1)]

\* Vector::push
push(w, v) ==
    LET w1 == IF w.vec.len = w.vec.cap THEN grow(w) ELSE w IN
    IF ~Running(w1) THEN w1
    ELSE LET w2 == Write(w1, w1.vec.len, v) IN
         IF ~Running(w2) THEN w2 ELSE Pushed(LenPlusOne(w2), v)

\* A pop that reads the last element and leaves it in the Vector.
PopKeep(w) ==
    IF w.vec.len = 0 THEN [w EXCEPT !.ret = <<>>]
    ELSE LET n == WrapSub(w.vec.len, 1)
             w1 == Reading(w, n)
         IN  IF ~Running(w1) THEN w1
             ELSE Give([w1 EXCEPT !.ret = <<At(w1, n)>>], At(w1, n))

\* Vector::pop
pop(w) ==
    IF w.vec.len = 0 THEN [w EXCEPT !.ret = <<>>]
    ELSE LET n == WrapSub(w.vec.len, 1)
             w1 == Reading([w EXCEPT !.vec.len = n], n)
         IN  IF ~Running(w1) THEN w1
             ELSE Give([w1 EXCEPT !.ret = <<At(w1, n)>>], At(w1, n))

\* An insert that writes the value without making room for it.
InsertOver(w, index, v) ==
    IF ~(index <= w.vec.len) THEN Halt(w, "Index out of bounds")
    ELSE LET w1 == IF w.vec.cap = w.vec.len THEN grow(w) ELSE w IN
         IF ~Running(w1) THEN w1
         ELSE LET w3 == Write(w1, index, v) IN
              IF ~Running(w3) THEN w3 ELSE Pushed(LenPlusOne(w3), v)

\* Vector::insert
insert(w, index, v) ==
    IF ~(index <= w.vec.len) THEN Halt(w, "Index out of bounds")
    ELSE LET w1 == IF w.vec.cap = w.vec.len THEN grow(w) ELSE w IN
         IF ~Running(w1) THEN w1
         ELSE LET w2 == Copy(w1, index, index + 1, w1.vec.len - index) IN
              IF ~Running(w2) THEN w2
              ELSE LET w3 == Write(w2, index, v) IN
                   IF ~Running(w3) THEN w3 ELSE Pushed(LenPlusOne(w3), v)

\* Vector::remove, after the value is read out: the slots behind index move
\* one to the front.
RemoveTail(w, index) == Copy(w, index + 1, index, w.vec.len - index)

\* A remove that reads the slot before it looks at the index.
RemoveUnchecked(w, index) ==
    LET w1 == Reading(w, index)
        v == At(w, index)
    IN  IF ~Running(w1) THEN w1
        ELSE LET w2 == RemoveTail(w1, index) IN
             IF ~Running(w2) THEN w2
             ELSE Give([w2 EXCEPT !.ret = <<v>>], v)

\* Vector::remove
remove(w, index) ==
    IF ~(index < w.vec.len) THEN Halt(w, "Index out of bounds")
    ELSE LET w1 == Reading(w, index)
             v == At(w, index)
         IN  IF ~Running(w1) THEN w1
             ELSE LET w2 == RemoveTail(w1, index) IN
                  IF ~Running(w2) THEN w2
                  ELSE Give([w2 EXCEPT !.ret = <<v>>], v)

\* The elements of the Vector: what its first len slots hold (Deref).
Held(w) == [i \in 1..w.vec.len |-> At(w, i - 1)]

\* The value v is one the Vector may hold: it came in once and has neither
\* gone to the caller nor been torn down.
Owned(w, v) ==
    /\ v \in Tokens
    /\ w.acct.pushed[v] = 1 /\ w.acct.given[v] = 0 /\ w.acct.torn[v] = 0

\* The slots from..to-1 hold values the Vector may hold, each in one slot.
AllOwned(w, from, to) ==
    /\ to <= Len(w.vec.buf)
    /\ \A i \in from..(to - 1) : Owned(w, At(w, i))
    /\ \A i, j \in from..(to - 1) : At(w, i) = At(w, j) => i = j

\* The Vector is what its fields say: len <= cap, its first len slots hold
\* values it owns (an iterator owns the slots it has yet to yield).
VSound(w) ==
    w.vec.alive =>
        /\ w.vec.len <= w.vec.cap
        /\ IF w.vec.zst
           THEN w.acct.pushed[ZstValue] =
                    w.vec.len + w.acct.given[ZstValue] + w.acct.torn[ZstValue]
                    + (w.iter.end - w.iter.start)
           ELSE /\ w.vec.cap = Len(w.vec.buf)
                /\ AllOwned(w, 0, w.vec.len)
                /\ w.iter.kind # "none" =>
                      (w.vec.len = 0 /\ AllOwned(w, w.iter.start, w.iter.end))

\* RawIter::new(&self): start and end of the first len slots; for a
\* zero-sized type they are numbers that are len apart.
RawIterEndZst(len) == Dangling + len
RawIterNew(w) ==
    IF w.vec.zst
    THEN LET w0 == Checked(w, Overflows(Dangling, w.vec.len)) IN
         IF ~Running(w0) THEN w0
         ELSE [w0 EXCEPT !.iter.start = Dangling,
                         !.iter.end = WrapAdd(Dangling, w.vec.len)]
    ELSE [w EXCEPT !.iter.start = 0, !.iter.end = w.vec.len]

\* A drain that leaves the Vector its length.
DrainKeepLen(w) ==
    LET w1 == RawIterNew(w) IN
    IF ~Running(w1) THEN w1
    ELSE [w1 EXCEPT !.iter.kind = "drain", !.iter.had = Held(w), !.iter.ok = VSound(w),
                    !.iter.front = <<>>, !.iter.back = <<>>]

\* Vector::drain
drain(w) ==
    LET w1 == RawIterNew(w) IN
    IF ~Running(w1) THEN w1
    ELSE [w1 EXCEPT !.iter.kind = "drain", !.iter.had = Held(w), !.iter.ok = VSound(w),
                    !.iter.front = <<>>, !.iter.back = <<>>,
                    !.vec.len = 0]

\* RawIter::next
iter_next(w) ==
    IF w.iter.start = w.iter.end THEN [w EXCEPT !.ret = <<>>]
    ELSE IF w.vec.zst
    THEN LET w0 == Checked(w, Overflows(w.iter.start, 1)) IN
         IF ~Running(w0) THEN w0
         ELSE [w0 EXCEPT !.iter.start = WrapAdd(@, 1), !.ret = <<ZstValue>>]
    ELSE LET old_ptr == w.iter.start
             w1 == Reading([w EXCEPT !.iter.start = @ + 1], old_ptr)
         IN  IF ~Running(w1) THEN w1 ELSE [w1 EXCEPT !.ret = <<At(w1, old_ptr)>>]

\* RawIter::next_back
next_back(w) ==
    IF w.iter.start = w.iter.end THEN [w EXCEPT !.ret = <<>>]
    ELSE IF w.vec.zst
    THEN LET w0 == Checked(w, Underflows(w.iter.end, 1)) IN
         IF ~Running(w0) THEN w0
         ELSE [w0 EXCEPT !.iter.end = WrapSub(@, 1), !.ret = <<ZstValue>>]
    ELSE LET w1 == Reading([w EXCEPT !.iter.end = @ - 1], w.iter.end - 1)
         IN  IF ~Running(w1) THEN w1 ELSE [w1 EXCEPT !.ret = <<At(w1, w1.iter.end)>>]

\* The caller takes what next or next_back yielded.
Yielded(w, side) ==
    IF ~Running(w) \/ w.ret = <<>> THEN w
    ELSE Give([w EXCEPT !.iter[side] = Append(@, w.ret[1])], w.ret[1])

\* for _ in &mut *self {}: the rest is yielded and torn down.
RECURSIVE DropRest(_, _)
DropRest(w, fuel) ==
    IF fuel = 0 THEN [w EXCEPT !.status = "hang"]
    ELSE LET w1 == iter_next(w) IN
         IF ~Running(w1) \/ w1.ret = <<>> THEN w1
         ELSE DropRest(Tear(w1, w1.ret[1]), fuel - 1)

\* A Drain whose destruction leaves the rest as it is.
DrainDropNothing(w) == [w EXCEPT !.iter.kind = "none"]

\* Drop for Drain
drain_drop(w) ==
    LET w1 == DropRest(w, UsizeMax + 1) IN
    IF ~Running(w1) THEN w1 ELSE [w1 EXCEPT !.iter.kind = "none", !.ret = <<>>]

\* Drop for Buffer: the allocation, if there is one, is released.
buffer_drop(w) ==
    IF w.vec.cap # 0 /\ ~w.vec.zst
    THEN [w EXCEPT !.acct.freed = @ + 1, !.vec.buf = <<>>]
    ELSE w

\* The Vector is no more (mem::forget, or the end of its destruction): len is
\* gone with it, buf and cap are the Buffer, which may live on in an IntoIter.
Forgotten(w) == [w EXCEPT !.vec.alive = FALSE, !.vec.len = 0]

\* IntoIterator for Vector: into_iter
into_iter(w) ==
    LET w1 == RawIterNew(w) IN
    IF ~Running(w1) THEN w1
    ELSE Forgotten([w1 EXCEPT !.iter.kind = "into_iter", !.iter.had = Held(w),
                              !.iter.ok = VSound(w),
                              !.iter.front = <<>>, !.iter.back = <<>>])

\* An IntoIter whose destruction releases the buffer and leaves the rest of
\* the elements as they are.
IntoIterDropBuffer(w) ==
    buffer_drop([w EXCEPT !.iter.kind = "none", !.ret = <<>>])

\* Drop for IntoIter, and then the drop of its field _buf
into_iter_drop(w) ==
    LET w1 == DropRest(w, UsizeMax + 1) IN
    IF ~Running(w1) THEN w1
    ELSE buffer_drop([w1 EXCEPT !.iter.kind = "none", !.ret = <<>>])

\* while let Some(_) = self.pop() {}: what pop hands out is torn down.
RECURSIVE PopRest(_, _)
PopRest(w, fuel) ==
    IF fuel = 0 THEN [w EXCEPT !.status = "hang"]
    ELSE LET w1 == pop(w) IN
         IF ~Running(w1) \/ w1.ret = <<>> THEN w1
         ELSE LET v == w1.ret[1]
                  w2 == IF v \in Tokens THEN [w1 EXCEPT !.acct.given[v] = @ - 1] ELSE w1
              IN  PopRest(Tear(w2, v), fuel - 1)

\* Drop for Vector, and then the drop of its field buf
vector_drop(w) ==
    LET w1 == PopRest(w, UsizeMax + 1) IN
    IF ~Running(w1) THEN w1 ELSE Forgotten(buffer_drop(w1))

\* The last operation on the Vector: its name and arguments, the Vector and
\* its elements before it ran, whether it was sound then, what it returned.
VSeen(name, index, v, w) ==
    [name |-> name, index |-> index, value |-> v,
     vec |-> vec, held |-> Held(VMem(build)), ok |-> VSound(VMem(build)),
     acct |-> acct, iter |-> iter, ret |-> w.ret, grew |-> w.grew, halt |-> w.halt]

\* The state after an operation on the Vector that ended in w.
VCommit(w, l) ==
    /\ vec' = w.vec
    /\ iter' = w.iter
    /\ acct' = w.acct
    /\ status' = w.status
    /\ ub' = w.ub
    /\ build' = [k \in Knobs |-> IF k \in w.used THEN w.build[k] ELSE build[k]]
    /\ damage' = IF VSound(w) THEN damage ELSE damage + 1
    /\ last' = l
    /\ UNCHANGED <<dequevars, log, othervars>>

VTry(Op(_), L(_)) ==
    \E w0 \in {Op(VMem(SomeBuild(build)))} :
       IF w0.used = {} THEN \E l \in {L(w0)} : VCommit(w0, l)
       ELSE \E b \in Builds(build) :
               \E w \in {Op(VMem(b))} : \E l \in {L(w)} : VCommit(w, l)

\* The Vector can be used: it exists and no Drain borrows it.
VecFree == vec.alive /\ iter.kind = "none"
\* The next push or insert finds room or may grow the buffer.
Room == vec.zst \/ vec.len < vec.cap \/ vec.cap = 0 \/ vec.cap + vec.cap <= MaxCap
\* The value the next push or insert brings in.
NewValues ==
    IF vec.zst THEN {v \in {ZstValue} : acct.pushed[v] <= UsizeMax}
    ELSE {v \in Tokens : acct.pushed[v] = 0 /\ \A u \in Tokens : acct.pushed[u] = 0 => v <= u}

\* let mut v = Vector::<T>::new()
VecNew ==
    /\ CanRun /\ vec = NoVec /\ iter.kind = "none"
    /\ \E zst \in BOOLEAN :
          VTry(LAMBDA w : new(w, zst), LAMBDA w : VSeen("new", 0, 0, w))

Push ==
    /\ CanRun /\ VecFree /\ Room
    /\ \E v \in NewValues :
          VTry(LAMBDA w : push(w, v), LAMBDA w : VSeen("push", 0, v, w))

Pop ==
    /\ CanRun /\ VecFree
    /\ VTry(LAMBDA w : pop(w), LAMBDA w : VSeen("pop", 0, 0, w))

Insert ==
    /\ CanRun /\ VecFree /\ Room
    /\ \E v \in NewValues, index \in 0..(vec.len + 1) :
          VTry(LAMBDA w : insert(w, index, v), LAMBDA w : VSeen("insert", index, v, w))

Remove ==
    /\ CanRun /\ VecFree
    /\ \E index \in 0..vec.len :
          VTry(LAMBDA w : remove(w, index), LAMBDA w : VSeen("remove", index, 0, w))

Drain ==
    /\ CanRun /\ VecFree
    /\ VTry(LAMBDA w : drain(w), LAMBDA w : VSeen("drain", 0, 0, w))

DrainNext ==
    /\ CanRun /\ iter.kind = "drain"
    /\ VTry(LAMBDA w : Yielded(iter_next(w), "front"),
            LAMBDA w : VSeen("drain_next", 0, 0, w))

DrainNextBack ==
    /\ CanRun /\ iter.kind = "drain"
    /\ VTry(LAMBDA w : Yielded(next_back(w), "back"),
            LAMBDA w : VSeen("drain_next_back", 0, 0, w))

DrainDrop ==
    /\ CanRun /\ iter.kind = "drain"
    /\ VTry(LAMBDA w : drain_drop(w), LAMBDA w : VSeen("drain_drop", 0, 0, w))

VecNext ==
    \/ VecNew \/ Push \/ Pop \/ Insert \/ Remove
    \/ Drain \/ DrainNext \/ DrainNextBack \/ DrainDrop

VecSpec == Init /\ [][VecNext]_vars

IntoIter ==
    /\ CanRun /\ VecFree
    /\ VTry(LAMBDA w : into_iter(w), LAMBDA w : VSeen("into_iter", 0, 0, w))

IntoNext ==
    /\ CanRun /\ iter.kind = "into_iter"
    /\ VTry(LAMBDA w : Yielded(iter_next(w), "front"),
            LAMBDA w : VSeen("into_next", 0, 0, w))

IntoNextBack ==
    /\ CanRun /\ iter.kind = "into_iter"
    /\ VTry(LAMBDA w : Yielded(next_back(w), "back"),
            LAMBDA w : VSeen("into_next_back", 0, 0, w))

IntoDrop ==
    /\ CanRun /\ iter.kind = "into_iter"
    /\ VTry(LAMBDA w : into_iter_drop(w), LAMBDA w : VSeen("into_iter_drop", 0, 0, w))

VecDrop ==
    /\ CanRun /\ VecFree
    /\ VTry(LAMBDA w : vector_drop(w), LAMBDA w : VSeen("vector_drop", 0, 0, w))

\* A Vector that is built, consumed by into_iter or destroyed.
OwnNext ==
    \/ VecNew \/ Push \/ Pop \/ Insert \/ Remove
    \/ IntoIter \/ IntoNext \/ IntoNextBack \/ IntoDrop \/ VecDrop

OwnSpec == Init /\ [][OwnNext]_vars

----------------------------------------------------------------------------
\* Dequeue::iter: the Iter over the Dequeue in slot d.  ret is the cell whose
\* value the reference last returned points to, ub whether a cell was read
\* that is not allocated.
Iter(m, d) ==
    [head |-> m.deques[d].head, tail |-> m.deques[d].tail, len |-> m.deques[d].len,
     ret |-> None, ub |-> FALSE]

\* Dequeue::iter_mut: the IterMut over the Dequeue in slot d.
IterMut(m, d) ==
    [head |-> m.deques[d].head, tail |-> m.deques[d].tail, len |-> m.deques[d].len,
     ret |-> None, ub |-> FALSE]

\* Iter::next
Iter_next(m, it) ==
    IF it.len = 0 \/ it.head = None THEN [it EXCEPT !.ret = None]
    ELSE [it EXCEPT !.len = @ - 1, !.head = m.next[it.head], !.ret = it.head,
                    !.ub = @ \/ it.head \notin m.alloc]

\* A next_back that steps along the wrong link.
IterNextBackAlongNext(m, it) ==
    IF it.len = 0 \/ it.tail = None THEN [it EXCEPT !.ret = None]
    ELSE [it EXCEPT !.len = @ - 1, !.tail = m.next[it.tail], !.ret = it.tail,
                    !.ub = @ \/ it.tail \notin m.alloc]

\* Iter::next_back
Iter_next_back(m, it) ==
    IF it.len = 0 \/ it.tail = None THEN [it EXCEPT !.ret = None]
    ELSE [it EXCEPT !.len = @ - 1, !.tail = m.prev[it.tail], !.ret = it.tail,
                    !.ub = @ \/ it.tail \notin m.alloc]

\* IterMut::next
IterMut_next(m, it) ==
    IF it.len = 0 \/ it.head = None THEN [it EXCEPT !.ret = None]
    ELSE [it EXCEPT !.len = @ - 1, !.head = m.next[it.head], !.ret = it.head,
                    !.ub = @ \/ it.head \notin m.alloc]

\* IterMut::next_back
IterMut_next_back(m, it) ==
    IF it.len = 0 \/ it.tail = None THEN [it EXCEPT !.ret = None]
    ELSE [it EXCEPT !.len = @ - 1, !.tail = m.prev[it.tail], !.ret = it.tail,
                    !.ub = @ \/ it.tail \notin m.alloc]

\* Iter::size_hint
Iter_size_hint(it) == <<it.len, it.len>>

\* list.iter().collect() and list.iter().rev().collect(): the values the
\* Iter yields until it returns None; an invalid read yields Junk.
RECURSIVE Collect(_, _, _)
Collect(m, it, fuel) ==
    LET it1 == Iter_next(m, it) IN
    IF it1.ret = None \/ fuel = 0 THEN <<>>
    ELSE <<IF it1.ub THEN Junk ELSE m.value[it1.ret]>> \o Collect(m, it1, fuel - 1)

RECURSIVE CollectRev(_, _, _)
CollectRev(m, it, fuel) ==
    LET it1 == Iter_next_back(m, it) IN
    IF it1.ret = None \/ fuel = 0 THEN <<>>
    ELSE <<IF it1.ub THEN Junk ELSE m.value[it1.ret]>> \o CollectRev(m, it1, fuel - 1)

----------------------------------------------------------------------------
\* One Dequeue whose values are told apart: the k-th value that goes in is k.
\* The log has an entry <<operation, value>> for each value that went in
\* (push_front, push_back, a write through front_mut or back_mut) or came
\* out (a pop that returned it).
IsIn(e) == e[1] \in {"push_front", "push_back", "front_mut", "back_mut"}
IsPush(e) == e[1] \in {"push_front", "push_back"}
IsPop(e) == e[1] \in {"pop_front", "pop_back"}
NextValue == Len(SelectSeq(log, IsIn)) + 1

\* Dequeue::len
len(m, d) == m.deques[d].len

\* Dequeue::is_empty
is_empty(m, d) == m.deques[d].len = 0

\* Dequeue::front
front(m, d) == ValueOf(m, m.deques[d].head)

\* Dequeue::front_mut
front_mut(m, d) == ValueOf(m, m.deques[d].head)

\* A back that looks at the head.
BackOfHead(m, d) == ValueOf(m, m.deques[d].head)

\* Dequeue::back
back(m, d) == ValueOf(m, m.deques[d].tail)

\* Dequeue::back_mut
back_mut(m, d) == ValueOf(m, m.deques[d].tail)

\* *x = v, for the reference x an operation has just returned.
Assign(m, v) == IF m.ret = None THEN m ELSE [m EXCEPT !.value[m.ret] = v]

\* The last operation on the deque in slot d: the Dequeue and its cells
\* before it ran, what it returned.
AtEnds(name, d, m) ==
    LET pre == Mem(build) IN
    [NoLast EXCEPT !.name = name, !.ret = m.ret, !.dq = pre.deques[d],
                   !.fwd = Forward(pre, pre.deques[d]),
                   !.ok = Proper(pre, pre.deques[d])]

\* The same for an operation that returns a reference to a value; v is what
\* is then written through it, if anything.
AtEndsLooked(name, d, m) ==
    [AtEnds(name, d, m) EXCEPT !.ref = m.ret,
                               !.ret = IF m.ret = None THEN None
                                       ELSE Mem(build).value[m.ret]]

\* What an operation that ended in m adds to the log.
WentIn(name, v, m) == IF Running(m) THEN <<<<name, v>>>> ELSE <<>>
CameOut(name, m) == IF Running(m) /\ m.ret # None THEN <<<<name, m.ret>>>> ELSE <<>>
Written(name, v, m) == IF Running(m) /\ m.ret # None THEN <<<<name, v>>>> ELSE <<>>

Logged(Op(_), L(_), E(_)) ==
    \E m0 \in {Op(Mem(SomeBuild(build)))} :
       IF m0.used = {}
       THEN \E l \in {L(m0)} :
               CommitDeque(m0, l) /\ log' = log \o E(m0) /\ UNCHANGED <<vecvars, othervars>>
       ELSE \E b \in Builds(build) :
               \E m \in {Op(Mem(b))} : \E l \in {L(m)} :
                  CommitDeque(m, l) /\ log' = log \o E(m) /\ UNCHANGED <<vecvars, othervars>>

\* let mut d = Dequeue::new(), the only one
NewOne == live = {} /\ New

PushFrontValue ==
    /\ CanRun /\ NextValue <= MaxPush /\ iter.kind = "none"
    /\ \E d \in Free, node \in Fresh(Mem(build)) :
          Logged(LAMBDA m : push_front(m, d, NextValue, node),
                 LAMBDA m : AtEnds("push_front", d, m),
                 LAMBDA m : WentIn("push_front", NextValue, m))

PushBackValue ==
    /\ CanRun /\ NextValue <= MaxPush /\ iter.kind = "none"
    /\ \E d \in Free, node \in Fresh(Mem(build)) :
          Logged(LAMBDA m : push_back(m, d, NextValue, node),
                 LAMBDA m : AtEnds("push_back", d, m),
                 LAMBDA m : WentIn("push_back", NextValue, m))

PopFrontValue ==
    /\ CanRun
    /\ \E d \in Free :
          Logged(LAMBDA m : pop_front(m, d), LAMBDA m : AtEnds("pop_front", d, m),
                 LAMBDA m : CameOut("pop_front", m))

PopBackValue ==
    /\ CanRun
    /\ \E d \in Free :
          Logged(LAMBDA m : pop_back(m, d), LAMBDA m : AtEnds("pop_back", d, m),
                 LAMBDA m : CameOut("pop_back", m))

Front ==
    /\ CanRun
    /\ \E d \in Free :
          Try(LAMBDA m : front(m, d), LAMBDA m : AtEndsLooked("front", d, m))

Back ==
    /\ CanRun
    /\ \E d \in Free :
          Try(LAMBDA m : back(m, d), LAMBDA m : AtEndsLooked("back", d, m))

\* *d.front_mut().unwrap() = v, if there is a front
FrontMut ==
    /\ CanRun /\ NextValue <= MaxPush
    /\ \E d \in Free :
          Logged(LAMBDA m : Assign(front_mut(m, d), NextValue),
                 LAMBDA m : AtEndsLooked("front_mut", d, m),
                 LAMBDA m : Written("front_mut", NextValue, m))

\* *d.back_mut().unwrap() = v, if there is a back
BackMut ==
    /\ CanRun /\ NextValue <= MaxPush
    /\ \E d \in Free :
          Logged(LAMBDA m : Assign(back_mut(m, d), NextValue),
                 LAMBDA m : AtEndsLooked("back_mut", d, m),
                 LAMBDA m : Written("back_mut", NextValue, m))

\* One deque that is pushed onto and popped from at both ends.
EndsNext ==
    \/ NewOne \/ PushFrontValue \/ PushBackValue \/ PopFrontValue \/ PopBackValue

EndsSpec == Init /\ [][EndsNext]_vars

\* One deque that is pushed onto, looked at and written to at both ends.
LookNext ==
    \/ NewOne \/ PushFrontValue \/ PushBackValue \/ PopFrontValue
    \/ Front \/ Back \/ FrontMut \/ BackMut

LookSpec == Init /\ [][LookNext]_vars

----------------------------------------------------------------------------
\* The iterators over the one Dequeue.  While there is one, iter is
\*   kind:        "iter", "iter_mut" or "into_iter"
\*   dq:          the slot of the Dequeue it borrows or owns
\*   it:          the Iter or IterMut (into_iter: the Dequeue is the state)
\*   had:         the values of the Dequeue when the iterator was made
\*   front, back: the values next and next_back have yielded so far
\*   ok:          the Dequeue was a proper list then
Values_of(m, cells) == [i \in 1..Len(cells) |-> m.value[cells[i]]]

Iterating(kind, d, it) ==
    [kind |-> kind, dq |-> d, it |-> it,
     had |-> Values_of(Mem(build), Forward(Mem(build), deques[d])),
     front |-> <<>>, back |-> <<>>, ok |-> Proper(Mem(build), deques[d])]

\* The step of an iterator by reference that took it from iter.it to it1.
Stepped(name, side, it1) ==
    /\ iter' = [iter EXCEPT !.it = it1,
                            ![side] = IF it1.ret = None THEN @
                                      ELSE Append(@, value[it1.ret])]
    /\ last' = [NoLast EXCEPT !.name = name,
                              !.ret = IF it1.ret = None THEN None ELSE value[it1.ret],
                              !.ref = it1.ret]
    /\ ub' = (ub \/ it1.ub)
    /\ UNCHANGED <<dequevars, status, build, damage, vec, acct, log, othervars>>

\* Try, for a step of the iterator that owns the Dequeue.
Yielding(Op(_), L(_), side) ==
    \E m0 \in {Op(Mem(SomeBuild(build)))} :
       \E b \in (IF m0.used = {} THEN {SomeBuild(build)} ELSE Builds(build)) :
          \E m \in {Op(Mem(b))} : \E l \in {L(m)} :
             /\ CommitDeque(m, l)
             /\ iter' = [iter EXCEPT ![side] = IF Running(m) /\ m.ret # None
                                               THEN Append(@, m.ret) ELSE @]
             /\ UNCHANGED <<vec, acct, log, othervars>>

\* let mut it = d.iter()
DequeIter ==
    /\ CanRun /\ iter.kind = "none"
    /\ \E d \in Free :
          /\ iter' = Iterating("iter", d, Iter(Mem(build), d))
          /\ last' = [NoLast EXCEPT !.name = "iter"]
          /\ UNCHANGED <<dequevars, status, ub, build, damage, vec, acct, log, othervars>>

\* let mut it = d.iter_mut()
DequeIterMut ==
    /\ CanRun /\ iter.kind = "none"
    /\ \E d \in Free :
          /\ iter' = Iterating("iter_mut", d, IterMut(Mem(build), d))
          /\ last' = [NoLast EXCEPT !.name = "iter_mut"]
          /\ UNCHANGED <<dequevars, status, ub, build, damage, vec, acct, log, othervars>>

\* let mut it = d.into_iter(): IntoIter(self)
DequeIntoIter ==
    /\ CanRun /\ iter.kind = "none"
    /\ \E d \in Free :
          /\ iter' = Iterating("into_iter", d, None)
          /\ last' = [NoLast EXCEPT !.name = "into_iter"]
          /\ UNCHANGED <<dequevars, status, ub, build, damage, vec, acct, log, othervars>>

\* it.next()
IterNext ==
    /\ CanRun
    /\ \/ iter.kind = "iter" /\ Stepped("next", "front", Iter_next(Mem(build), iter.it))
       \/ iter.kind = "iter_mut"
            /\ Stepped("next", "front", IterMut_next(Mem(build), iter.it))
       \/ iter.kind = "into_iter"
            /\ Yielding(LAMBDA m : pop_front(m, iter.dq),
                        LAMBDA m : AtEnds("next", iter.dq, m), "front")

\* it.next_back()
IterNextBack ==
    /\ CanRun
    /\ \/ iter.kind = "iter"
            /\ Stepped("next_back", "back", Iter_next_back(Mem(build), iter.it))
       \/ iter.kind = "iter_mut"
            /\ Stepped("next_back", "back", IterMut_next_back(Mem(build), iter.it))
       \/ iter.kind = "into_iter"
            /\ Yielding(LAMBDA m : pop_back(m, iter.dq),
                        LAMBDA m : AtEnds("next_back", iter.dq, m), "back")

\* The iterator goes out of scope: a borrow ends; an IntoIter drops the
\* Dequeue it owns.
IterEnd ==
    /\ CanRun
    /\ \/ /\ iter.kind \in {"iter", "iter_mut"}
          /\ iter' = NoIter
          /\ last' = [NoLast EXCEPT !.name = "iter_end"]
          /\ UNCHANGED <<dequevars, status, ub, build, damage, vec, acct, log, othervars>>
       \/ /\ iter.kind = "into_iter"
          /\ \E m \in {drop(Mem(SomeBuild(build)), iter.dq)} :
                CommitDeque(m, Plain("iter_end", m))
          /\ iter' = NoIter
          /\ UNCHANGED <<vec, acct, log, othervars>>

\* One deque that is built by pushes and iterated over from both ends.
IterStep ==
    \/ NewOne \/ PushFrontValue \/ PushBackValue
    \/ DequeIter \/ DequeIterMut \/ DequeIntoIter
    \/ IterNext \/ IterNextBack \/ IterEnd

IterSpec == Init /\ [][IterStep]_vars

----------------------------------------------------------------------------
\* Comparison of Dequeues.  The elements are of a type with a partial order,
\* as f64: two numbers and NaN, which is neither less than, greater than nor
\* equal to anything.
NaN == 3
Floats == {1, 2, NaN}

\* PartialEq::eq and PartialOrd::partial_cmp of the elements.
elem_eq(x, y) == x # NaN /\ y # NaN /\ x = y
elem_partial_cmp(x, y) ==
    IF x = NaN \/ y = NaN THEN "None"
    ELSE IF x < y THEN "Less" ELSE IF x > y THEN "Greater" ELSE "Equal"

\* Iterator::eq of two Iters: both step until one of them ends or a pair of
\* elements is not equal.
RECURSIVE IterEq(_, _, _)
IterEq(m, a, b) ==
    LET a1 == Iter_next(m, a)
        b1 == Iter_next(m, b)
    IN  IF a1.ret = None THEN b1.ret = None
        ELSE IF b1.ret = None THEN FALSE
        ELSE IF ~elem_eq(m.value[a1.ret], m.value[b1.ret]) THEN FALSE
        ELSE IterEq(m, a1, b1)

\* A comparison that takes an incomparable pair of elements for an equal one.
RECURSIVE IterPartialCmpPastNone(_, _, _)
IterPartialCmpPastNone(m, a, b) ==
    LET a1 == Iter_next(m, a)
        b1 == Iter_next(m, b)
    IN  IF a1.ret = None THEN (IF b1.ret = None THEN "Equal" ELSE "Less")
        ELSE IF b1.ret = None THEN "Greater"
        ELSE LET c == elem_partial_cmp(m.value[a1.ret], m.value[b1.ret]) IN
             IF c \in {"Less", "Greater"} THEN c ELSE IterPartialCmpPastNone(m, a1, b1)

\* Iterator::partial_cmp of two Iters: the first pair of elements that does
\* not compare Equal decides; if there is none, the one that ends first is
\* Less.
RECURSIVE IterPartialCmp(_, _, _)
IterPartialCmp(m, a, b) ==
    LET a1 == Iter_next(m, a)
        b1 == Iter_next(m, b)
    IN  IF a1.ret = None THEN (IF b1.ret = None THEN "Equal" ELSE "Less")
        ELSE IF b1.ret = None THEN "Greater"
        ELSE LET c == elem_partial_cmp(m.value[a1.ret], m.value[b1.ret]) IN
             IF c # "Equal" THEN c ELSE IterPartialCmp(m, a1, b1)

\* PartialEq for Dequeue: eq
eq(m, a, b) == len(m, a) = len(m, b) /\ IterEq(m, Iter(m, a), Iter(m, b))

\* PartialOrd for Dequeue: partial_cmp, and the operators <, <=, >, >= that
\* PartialOrd derives from it.
partial_cmp(m, a, b) == IterPartialCmp(m, Iter(m, a), Iter(m, b))
lt(m, a, b) == partial_cmp(m, a, b) = "Less"
le(m, a, b) == partial_cmp(m, a, b) \in {"Less", "Equal"}
gt(m, a, b) == partial_cmp(m, a, b) = "Greater"
ge(m, a, b) == partial_cmp(m, a, b) \in {"Greater", "Equal"}

\* Ord for Dequeue: cmp, for elements of a type with a total order.
cmp(m, a, b) == IterPartialCmp(m, Iter(m, a), Iter(m, b))

PushBackFloat ==
    /\ CanRun
    /\ \E d \in Free, v \in Floats :
          \E node \in Fresh(Mem(build)) :
             Try(LAMBDA m : push_back(m, d, v, node),
                 LAMBDA m : Plain("push_back", m))

\* a == b, a < b, a <= b, a > b, a >= b and, if no element is NaN, a.cmp(&b)
\* for the Dequeues in the slots a and b.
Compare ==
    /\ CanRun
    /\ \E a, b \in live :
          LET m == Mem(build)
              total == \A n \in m.alloc : m.value[n] # NaN
          IN  /\ last' = [NoLast EXCEPT
                             !.name = "compare",
                             !.dq = deques[a], !.fwd = Forward(m, deques[a]),
                             !.inp = deques[b], !.ifwd = Forward(m, deques[b]),
                             !.ok = Proper(m, deques[a]) /\ Proper(m, deques[b]),
                             !.ret = [eq |-> eq(m, a, b), lt |-> lt(m, a, b),
                                      le |-> le(m, a, b), gt |-> gt(m, a, b),
                                      ge |-> ge(m, a, b),
                                      cmp |-> IF total THEN cmp(m, a, b) ELSE "None"]]
              /\ UNCHANGED <<dequevars, status, ub, build, damage, vec, iter, acct, log, othervars>>

\* Dequeues of such elements that are built and compared.
CmpStep == New \/ PushBackFloat \/ Compare

CmpSpec == Init /\ [][CmpStep]_vars

\* A Vector that is only pushed onto and popped from.
StackNext == VecNew \/ Push \/ Pop

StackSpec == Init /\ [][StackNext]_vars

\* The five operations at the ends and clear, on the one deque, with values
\* that tell the elements apart, and next to them the sequence the deque
\* stands for: abs is prepended to, appended to, loses its first or its last
\* element, or is reset to empty.
RValues == {1, 2}

Refined(Op(_), L(_), A(_)) ==
    \E m0 \in {Op(Mem(SomeBuild(build)))} :
       IF m0.used = {}
       THEN \E l \in {L(m0)} :
               /\ CommitDeque(m0, [abs |-> abs] @@ l)
               /\ abs' = IF Running(m0) THEN A(abs) ELSE abs
               /\ UNCHANGED <<vecvars, log, queue, tree>>
       ELSE \E b \in Builds(build) :
               \E m \in {Op(Mem(b))} : \E l \in {L(m)} :
                  /\ CommitDeque(m, [abs |-> abs] @@ l)
                  /\ abs' = IF Running(m) THEN A(abs) ELSE abs
                  /\ UNCHANGED <<vecvars, log, queue, tree>>

RefPushFront ==
    /\ CanRun
    /\ \E d \in Free, v \in RValues, node \in Fresh(Mem(build)) :
          Refined(LAMBDA m : push_front(m, d, v, node),
                  LAMBDA m : AtEnds("push_front", d, m), LAMBDA s : <<v>> \o s)

RefPushBack ==
    /\ CanRun
    /\ \E d \in Free, v \in RValues, node \in Fresh(Mem(build)) :
          Refined(LAMBDA m : push_back(m, d, v, node),
                  LAMBDA m : AtEnds("push_back", d, m), LAMBDA s : s \o <<v>>)

RefPopFront ==
    /\ CanRun
    /\ \E d \in Free :
          Refined(LAMBDA m : pop_front(m, d), LAMBDA m : AtEnds("pop_front", d, m),
                  LAMBDA s : IF s = <<>> THEN s ELSE Tail(s))

RefPopBack ==
    /\ CanRun
    /\ \E d \in Free :
          Refined(LAMBDA m : pop_back(m, d), LAMBDA m : AtEnds("pop_back", d, m),
                  LAMBDA s : IF s = <<>> THEN s ELSE SubSeq(s, 1, Len(s) - 1))

RefClear ==
    /\ CanRun
    /\ \E d \in Free :
          Refined(LAMBDA m : clear(m, d), LAMBDA m : AtEnds("clear", d, m),
                  LAMBDA s : <<>>)

RefineNext ==
    NewOne \/ RefPushFront \/ RefPushBack \/ RefPopFront \/ RefPopBack \/ RefClear

RefineSpec == Init /\ [][RefineNext]_vars

----------------------------------------------------------------------------
\* The singly linked Queue of queue.rs; LinkedList of lib.rs is the same
\* code.  The operations are on a record q of the Queue, its nodes and the
\* run.
QMem(b) ==
    [alive |-> queue.alive, head |-> queue.head, tail |-> queue.tail, len |-> queue.len,
     next |-> queue.next, value |-> queue.value, alloc |-> queue.alloc,
     status |-> status, ub |-> ub, ret |-> None, build |-> b, used |-> {}]

\* u32 arithmetic on len: an overflow panics with overflow checks, wraps
\* without.
LenInc(q) ==
    LET q0 == Checked(q, q.len + 1 > U32Max) IN
    IF ~Running(q0) THEN q0 ELSE [q0 EXCEPT !.len = (@ + 1) % (U32Max + 1)]

LenDec(q) ==
    LET q0 == Checked(q, q.len < 1) IN
    IF ~Running(q0) THEN q0 ELSE [q0 EXCEPT !.len = (@ - 1) % (U32Max + 1)]

\* Queue::new
queue_new(q) == [q EXCEPT !.alive = TRUE, !.head = None, !.tail = None, !.len = 0]

\* The same, but the new node is linked in front of the head.
AppendInFront(q, v, node) ==
    LET q1 == [q EXCEPT !.alloc = @ \cup {node}, !.value[node] = v,
                        !.next[node] = q.head, !.head = node,
                        !.tail = IF q.tail = None THEN node ELSE @]
    IN  LenInc(q1)

\* Queue::append: node is the cell Box::new returns.
append(q, v, node) ==
    LET q1 == [q EXCEPT !.alloc = @ \cup {node}, !.value[node] = v, !.next[node] = None]
        q2 == IF q1.tail # None THEN [q1 EXCEPT !.next[q1.tail] = node]
              ELSE [q1 EXCEPT !.head = node]
        q3 == [q2 EXCEPT !.tail = node]
    IN  LenInc(q3)

\* Queue::pop: the Box of the old head is dropped when pop ends, also by a
\* panic.
queue_pop(q) ==
    IF q.head = None THEN [q EXCEPT !.ret = None]
    ELSE LET head == q.head
             q1 == [q EXCEPT !.head = q.next[head]]
             q2 == IF q1.head = None THEN [q1 EXCEPT !.tail = None] ELSE q1
             q3 == LenDec(q2)
             q4 == [q3 EXCEPT !.alloc = @ \ {head}, !.next[head] = None,
                              !.value[head] = 0]
         IN  IF Running(q4) THEN [q4 EXCEPT !.ret = q.value[head]] ELSE q4

\* Queue::peek
queue_peek(q) == [q EXCEPT !.ret = IF q.head = None THEN None ELSE q.value[q.head]]

\* The nodes from head along next.
QChain(q) == Walk(q.next, q.head, MaxPush + 1)
QValues(q) == [i \in 1..Len(QChain(q)) |-> q.value[QChain(q)[i]]]

\* What the last operation on the Queue saw before it ran and returned.
QSeen(name, q) ==
    [name |-> name, len |-> queue.len, head |-> queue.head, tail |-> queue.tail,
     values |-> QValues(queue), ret |-> q.ret]

QCommit(q, l, e) ==
    /\ queue' = [alive |-> q.alive, head |-> q.head, tail |-> q.tail, len |-> q.len,
                 next |-> q.next, value |-> q.value, alloc |-> q.alloc]
    /\ status' = q.status
    /\ ub' = q.ub
    /\ build' = [k \in Knobs |-> IF k \in q.used THEN q.build[k] ELSE build[k]]
    /\ last' = l
    /\ log' = log \o e
    /\ UNCHANGED <<dequevars, vecvars, damage, tree, abs>>

QTry(Op(_), L(_), E(_)) ==
    \E q0 \in {Op(QMem(SomeBuild(build)))} :
       IF q0.used = {} THEN \E l \in {L(q0)} : QCommit(q0, l, E(q0))
       ELSE \E b \in Builds(build) :
               \E q \in {Op(QMem(b))} : \E l \in {L(q)} : QCommit(q, l, E(q))

IsAppend(e) == e[1] = "append"
QNextValue == Len(SelectSeq(log, IsAppend)) + 1
QFresh == {n \in QNodes \ queue.alloc : \A k \in QNodes \ queue.alloc : n <= k}

\* let mut queue = Queue::new()
QueueNew ==
    /\ CanRun /\ ~queue.alive
    /\ QTry(LAMBDA q : queue_new(q), LAMBDA q : QSeen("new", q), LAMBDA q : <<>>)

\* queue.append(v)
QueueAppend ==
    /\ CanRun /\ queue.alive /\ QNextValue <= MaxPush
    /\ \E node \in QFresh :
          QTry(LAMBDA q : append(q, QNextValue, node), LAMBDA q : QSeen("append", q),
               LAMBDA q : WentIn("append", QNextValue, q))

\* queue.pop()
QueuePop ==
    /\ CanRun /\ queue.alive
    /\ QTry(LAMBDA q : queue_pop(q), LAMBDA q : QSeen("pop", q),
            LAMBDA q : CameOut("pop", q))

\* queue.peek()
QueuePeek ==
    /\ CanRun /\ queue.alive
    /\ QTry(LAMBDA q : queue_peek(q), LAMBDA q : QSeen("peek", q), LAMBDA q : <<>>)

QueueNext == QueueNew \/ QueueAppend \/ QueuePop \/ QueuePeek

QueueSpec == Init /\ [][QueueNext]_vars

----------------------------------------------------------------------------
\* The BinaryTree of binary_tree.rs.  The operations are on a record t of
\* the tree, its nodes and the run.  T may own a resource (glue: T has a
\* destructor, as String has) or not (as i32).  inst[n] names the value that
\* the bits in cell n are, gone the values whose destructor has run: a move
\* copies the bits, and a value is dropped once however many copies of its
\* bits there are.
TMem(b) ==
    [alive |-> tree.alive, glue |-> tree.glue, root |-> tree.root, size |-> tree.size,
     value_inserted |-> tree.value_inserted, value_removed |-> tree.value_removed,
     left |-> tree.left, right |-> tree.right, value |-> tree.value,
     alloc |-> tree.alloc, inst |-> [n \in TNodes |-> n], gone |-> tree.dead,
     link |-> None, status |-> status, ub |-> ub, ret |-> None, build |-> b,
     used |-> {}]

\* An access that is undefined behaviour: it traps or, in a build that does
\* not notice, goes on with the stale bits.
Undefined(t) ==
    [t EXCEPT !.ub = TRUE, !.used = @ \cup {"trap"},
              !.status = IF t.build["trap"] = "on" THEN "ub" ELSE @]

\* A comparison with the value in cell n reads it.
ReadValue(t, n) == IF t.glue /\ t.inst[n] \in t.gone THEN Undefined(t) ELSE t

\* The destructor of the value in cell n runs.
DropValue(t, n) ==
    IF ~t.glue THEN t
    ELSE IF t.inst[n] \in t.gone THEN Undefined(t)
    ELSE [t EXCEPT !.gone = @ \cup {t.inst[n]}]

\* drop(Box::from_raw(n)): the node's value is dropped and the cell freed.
DropBox(t, n) == [DropValue(t, n) EXCEPT !.alloc = @ \ {n}]

\* BinaryTree::new
tree_new(t, glue) ==
    [t EXCEPT !.alive = TRUE, !.glue = glue, !.root = None, !.size = 0,
              !.value_inserted = FALSE, !.value_removed = FALSE]

\* The same, but the size is left as it was.
InsertHereUncounted(t, v, node) ==
    [t EXCEPT !.alloc = @ \cup {node}, !.value[node] = v, !.inst[node] = node,
              !.gone = @ \ {node}, !.left[node] = None, !.right[node] = None,
              !.value_inserted = TRUE, !.link = node]

\* insert_recursively at an empty link: node is the cell Box::new returns.
InsertHere(t, v, node) ==
    LET t1 == [t EXCEPT !.alloc = @ \cup {node}, !.value[node] = v, !.inst[node] = node,
                        !.gone = @ \ {node}, !.left[node] = None, !.right[node] = None,
                        !.value_inserted = TRUE]
        t2 == Checked(t1, Overflows(t1.size, 1))
    IN  IF ~Running(t2) THEN t2
        ELSE [t2 EXCEPT !.size = WrapAdd(@, 1), !.link = node]

\* BinaryTree::insert_recursively; link is the Link it returns.
RECURSIVE insert_recursively(_, _, _, _)
insert_recursively(t, cur, v, node) ==
    IF cur = None THEN InsertHere(t, v, node)
    ELSE LET t0 == ReadValue(t, cur) IN
         IF ~Running(t0) THEN t0
         ELSE IF v < t0.value[cur]
         THEN LET r == insert_recursively(t0, t0.left[cur], v, node) IN
              IF ~Running(r) THEN r
              ELSE [r EXCEPT !.left[cur] = r.link, !.link = cur]
         ELSE IF v > t0.value[cur]
         THEN LET r == insert_recursively(t0, t0.right[cur], v, node) IN
              IF ~Running(r) THEN r
              ELSE [r EXCEPT !.right[cur] = r.link, !.link = cur]
         ELSE [t0 EXCEPT !.value_inserted = FALSE, !.link = cur]

\* BinaryTree::insert
tree_insert(t, v, node) ==
    LET r == insert_recursively(t, t.root, v, node) IN
    IF ~Running(r) THEN r ELSE [r EXCEPT !.root = r.link, !.ret = r.value_inserted]

\* BinaryTree::search
RECURSIVE search(_, _, _)
search(t, cur, v) ==
    IF cur = None THEN [t EXCEPT !.ret = FALSE]
    ELSE LET t0 == ReadValue(t, cur) IN
         IF ~Running(t0) THEN t0
         ELSE IF v < t0.value[cur] THEN search(t0, t0.left[cur], v)
         ELSE IF v > t0.value[cur] THEN search(t0, t0.right[cur], v)
         ELSE [t0 EXCEPT !.ret = TRUE]

\* BinaryTree::contains
tree_contains(t, v) == search(t, t.root, v)

\* BinaryTree::min_value_parent_node
RECURSIVE min_value_parent_node(_, _)
min_value_parent_node(t, node) ==
    IF t.left[node] = None THEN None
    ELSE IF t.left[t.left[node]] = None THEN node
    ELSE min_value_parent_node(t, t.left[node])

\* (*node).value = successor.value, successor a ptr::read of the node
\* dropped: the value of node is dropped and the bits of the other value
\* are written over it.
TakeValue(t, node, dropped) ==
    LET t1 == DropValue(t, node) IN
    IF ~Running(t1) THEN t1
    ELSE [t1 EXCEPT !.value[node] = t.value[dropped], !.inst[node] = t.inst[dropped]]

\* remove_recursively at a node with two children.
RemoveTwoChildren(t, node) ==
    LET parent == min_value_parent_node(t, t.right[node])
        node_to_be_dropped == IF parent # None THEN t.left[parent] ELSE t.right[node]
        t1 == TakeValue(t, node, node_to_be_dropped)
        t2 == IF parent # None
              THEN [t1 EXCEPT !.left[parent] = t.right[node_to_be_dropped]]
              ELSE [t1 EXCEPT !.right[node] = t.right[node_to_be_dropped]]
    IN  IF ~Running(t1) THEN t1 ELSE DropBox(t2, node_to_be_dropped)

\* remove_recursively at the node that holds the value.
RemoveHere(t, node) ==
    LET t1 == [t EXCEPT !.value_removed = TRUE]
        t2 == Checked(t1, Underflows(t1.size, 1))
        t3 == [t2 EXCEPT !.size = WrapSub(@, 1)]
    IN  IF ~Running(t2) THEN t2
        ELSE IF t3.left[node] = None
        THEN [DropBox(t3, node) EXCEPT !.link = t3.right[node]]
        ELSE IF t3.right[node] = None
        THEN [DropBox(t3, node) EXCEPT !.link = t3.left[node]]
        ELSE [RemoveTwoChildren(t3, node) EXCEPT !.link = node]

\* BinaryTree::remove_recursively; link is the Link it returns.
RECURSIVE remove_recursively(_, _, _)
remove_recursively(t, cur, v) ==
    IF cur = None THEN [t EXCEPT !.value_removed = FALSE, !.link = None]
    ELSE LET t0 == ReadValue(t, cur) IN
         IF ~Running(t0) THEN t0
         ELSE IF v < t0.value[cur]
         THEN LET r == remove_recursively(t0, t0.left[cur], v) IN
              IF ~Running(r) THEN r
              ELSE [r EXCEPT !.left[cur] = r.link, !.link = cur]
         ELSE IF v > t0.value[cur]
         THEN LET r == remove_recursively(t0, t0.right[cur], v) IN
              IF ~Running(r) THEN r
              ELSE [r EXCEPT !.right[cur] = r.link, !.link = cur]
         ELSE RemoveHere(t0, cur)

\* BinaryTree::remove
tree_remove(t, v) ==
    LET r == remove_recursively(t, t.root, v) IN
    IF ~Running(r) THEN r ELSE [r EXCEPT !.root = r.link, !.ret = r.value_removed]

\* BinaryTree::push_values_inorder: the cells whose values are referred to.
RECURSIVE push_values_inorder(_, _)
push_values_inorder(t, cur) ==
    IF cur = None THEN <<>>
    ELSE push_values_inorder(t, t.left[cur]) \o <<cur>>
         \o push_values_inorder(t, t.right[cur])

\* BinaryTree::iter followed by Iter::next until it returns None: the
\* references the caller gets.
tree_iter(t) == [t EXCEPT !.ret = push_values_inorder(t, t.root)]

\* The cells of the tree, the root first: the address of a cell means
\* nothing to the program, and the cells are numbered in this order.
RECURSIVE Preorder(_, _)
Preorder(t, cur) ==
    IF cur = None THEN <<>>
    ELSE <<cur>> \o Preorder(t, t.left[cur]) \o Preorder(t, t.right[cur])

TOrder(t) == Dedupe(Preorder(t, t.root) \o Ascending(t.alloc) \o Ascending(TNodes), {})
TRenamed(ord, n) == IF n = None THEN None ELSE CHOOSE i \in TNodes : ord[i] = n

\* The cells that hold the bits of a value whose destructor has run.
Dead(t) == {n \in t.alloc : t.glue /\ t.inst[n] \in t.gone}

\* The values for which contains returns true.
Contains(t) == {w \in Keys : LET c == tree_contains(t, w) IN Running(c) /\ c.ret}

\* What the last operation on the tree saw before it ran and returned.
TSeen(name, v, t) ==
    [name |-> name, value |-> v, size |-> tree.size,
     had |-> Contains(TMem(SomeBuild(build))), ok |-> tree.dead = {} /\ ~ub,
     ret |-> t.ret]

\* The same for iter: the value each reference leads to and whether that
\* value is still there.
TYielded(name, t) ==
    [TSeen(name, 0, t) EXCEPT
        !.ret = [i \in 1..Len(t.ret) |->
                    [value |-> t.value[t.ret[i]], live |-> t.ret[i] \notin Dead(t)]]]

TCommit(t, l) ==
    \E ord \in {TOrder(t)} :
        /\ tree' = [alive |-> t.alive, glue |-> t.glue, root |-> TRenamed(ord, t.root),
                    size |-> t.size, value_inserted |-> t.value_inserted,
                    value_removed |-> t.value_removed,
                    left |-> [i \in TNodes |-> IF ord[i] \in t.alloc
                                               THEN TRenamed(ord, t.left[ord[i]])
                                               ELSE None],
                    right |-> [i \in TNodes |-> IF ord[i] \in t.alloc
                                                THEN TRenamed(ord, t.right[ord[i]])
                                                ELSE None],
                    value |-> [i \in TNodes |-> IF ord[i] \in t.alloc
                                                THEN t.value[ord[i]] ELSE 0],
                    alloc |-> {TRenamed(ord, n) : n \in t.alloc},
                    dead |-> {TRenamed(ord, n) : n \in Dead(t)}]
        /\ status' = t.status
        /\ ub' = t.ub
        /\ build' = [k \in Knobs |-> IF k \in t.used THEN t.build[k] ELSE build[k]]
        /\ damage' = IF Dead(t) = {} THEN damage ELSE damage + 1
        /\ last' = l
        /\ UNCHANGED <<dequevars, vecvars, log, queue, abs>>

TTry(Op(_), L(_)) ==
    \E t0 \in {Op(TMem(SomeBuild(build)))} :
       IF t0.used = {} THEN \E l \in {L(t0)} : TCommit(t0, l)
       ELSE \E b \in Builds(build) :
               \E t \in {Op(TMem(b))} : \E l \in {L(t)} : TCommit(t, l)

\* The cell Box::new returns (none when every cell is in use: every value
\* is in the tree then, and insert allocates nothing).
TFresh ==
    IF tree.alloc = TNodes THEN {None}
    ELSE {n \in TNodes \ tree.alloc : \A k \in TNodes \ tree.alloc : n <= k}

\* let mut tree = BinaryTree::<T>::new()
TreeNew ==
    /\ CanRun /\ ~tree.alive
    /\ \E glue \in BOOLEAN :
          TTry(LAMBDA t : tree_new(t, glue), LAMBDA t : TSeen("new", 0, t))

\* tree.insert(v)
TreeInsert ==
    /\ CanRun /\ tree.alive
    /\ \E v \in Keys, node \in TFresh :
          TTry(LAMBDA t : tree_insert(t, v, node), LAMBDA t : TSeen("insert", v, t))

\* tree.remove(&v)
TreeRemove ==
    /\ CanRun /\ tree.alive
    /\ \E v \in Keys :
          TTry(LAMBDA t : tree_remove(t, v), LAMBDA t : TSeen("remove", v, t))

\* tree.contains(&v)
TreeContains ==
    /\ CanRun /\ tree.alive
    /\ \E v \in Keys :
          TTry(LAMBDA t : tree_contains(t, v), LAMBDA t : TSeen("contains", v, t))

\* tree.iter().collect()
TreeIter ==
    /\ CanRun /\ tree.alive
    /\ TTry(LAMBDA t : tree_iter(t), LAMBDA t : TYielded("iter", t))

TreeNext == TreeNew \/ TreeInsert \/ TreeRemove \/ TreeContains \/ TreeIter

TreeSpec == Init /\ [][TreeNext]_vars

----------------------------------------------------------------------------
\* The deque the cursor borrows, the deque the last operation returned, and
\* what a traversal of them reads in the current state.
Now == Mem(build)
Mine == deques[cursor.dq]
Returned == deques[last.ret]
Cells(dq) == Forward(Now, dq)
CellsBack(dq) == Backward(Now, dq)

\* The last operation was op, ran to its end, and found the cursor on a
\* cell of its deque (OnNode) or at Ghost (AtGhost).
Ran(op) == last.name = op /\ status = "running"
OnNode == last.cur # None /\ last.cur \in Range(last.fwd)
AtGhost == last.cur = None
\* The position of the cursor's cell before the last operation.
Pos == Position(last.fwd, last.cur)
\* The cells before and behind the cursor's cell, before the last operation.
Before == SubSeq(last.fwd, 1, Pos)
Behind == SubSeq(last.fwd, Pos + 2, Len(last.fwd))

\* C1: every live Dequeue satisfies: len == 0 iff head and tail are both
\* empty; following next from head exactly len times reaches empty;
\* following prev from tail exactly len times reaches empty; and for all
\* nodes A, B: A.next == B iff B.prev == A.
C1_ListInvariant ==
    status = "running" =>
        /\ \A d \in live :
              /\ deques[d].len = 0 <=> (deques[d].head = None /\ deques[d].tail = None)
              /\ Len(Cells(deques[d])) = deques[d].len
              /\ Len(CellsBack(deques[d])) = deques[d].len
        /\ \A a, b \in alloc : next[a] = b <=> prev[b] = a

\* C2: whenever the cursor is on a node, index() equals that node's 0-based
\* position counted from the head of the cursor's deque.
C2_IndexIsPosition ==
    (status = "running" /\ HasCursor /\ cursor.current # None) =>
        cursor.index = Position(Cells(Mine), cursor.current)

\* C3, as the claim states it: split_before on the node at position i of a
\* deque of length n returns a deque whose head is the current node, whose
\* tail is the old tail and whose length is n - i, and leaves the cursor's
\* deque holding the i elements before the current node, its tail the
\* predecessor.
C3_AsClaimed ==
    (Ran("split_before") /\ OnNode /\ last.ok /\ last.idx = Pos) =>
        /\ Returned = [head |-> last.cur, tail |-> last.dq.tail,
                       len |-> last.dq.len - Pos]
        /\ Mine.len = Pos
        /\ Cells(Mine) = Before
        /\ Mine.tail = (IF Pos = 0 THEN None ELSE last.fwd[Pos])

\* C3, amended: split_before on the node at position i of a deque of length
\* n returns a deque whose head is the old head, whose tail is the
\* predecessor of the current node (empty if there is none) and whose length
\* is i, holding for i >= 1 the i elements before the current node; the
\* cursor's deque keeps the n - i elements from the current node to the old
\* tail: its head is the current node, its tail the old tail.
C3_SplitBefore ==
    (Ran("split_before") /\ OnNode /\ last.ok /\ last.idx = Pos) =>
        /\ Returned = [head |-> last.dq.head,
                       tail |-> (IF Pos = 0 THEN None ELSE last.fwd[Pos]),
                       len |-> Pos]
        /\ Pos >= 1 => Cells(Returned) = Before
        /\ Mine = [head |-> last.cur, tail |-> last.dq.tail,
                   len |-> last.dq.len - Pos]
        /\ Cells(Mine) = <<last.cur>> \o Behind

C3_Witness ==
    /\ Ran("split_before") /\ OnNode /\ last.ok /\ last.idx = Pos
    /\ Pos = 1 /\ Len(last.fwd) = 3
    /\ Len(Cells(Returned)) = 1 /\ Len(Cells(Mine)) = 2

\* C4: after split_before with the cursor on a node, the cursor is still on
\* the same node, index() is Some(0), and that node is the head of the
\* cursor's deque with no predecessor link.
C4_CursorAfterSplitBefore ==
    (Ran("split_before") /\ last.cur # None) =>
        /\ cursor.current = last.cur
        /\ cursor.index = 0
        /\ Mine.head = cursor.current
        /\ prev[cursor.current] = None

C4_Witness ==
    /\ Ran("split_before") /\ OnNode /\ last.ok /\ last.idx = 2
    /\ cursor.index = 0 /\ Mine.head = cursor.current

\* C5: split_after on the node at position i of a deque of length n leaves
\* the cursor's deque holding the elements at positions 0..i (length i+1,
\* tail = current node, cursor still on that node at index i) and returns a
\* deque holding the elements at positions i+1..n-1 (head = old successor,
\* tail = old tail, length n-(i+1)).
C5_SplitAfter ==
    (Ran("split_after") /\ OnNode /\ last.ok /\ last.idx = Pos) =>
        /\ Mine = [head |-> last.dq.head, tail |-> last.cur, len |-> Pos + 1]
        /\ Cells(Mine) = Before \o <<last.cur>>
        /\ cursor.current = last.cur
        /\ cursor.index = Pos
        /\ Returned = [head |-> (IF Behind = <<>> THEN None ELSE Behind[1]),
                       tail |-> last.dq.tail,
                       len |-> last.dq.len - (Pos + 1)]
        /\ Cells(Returned) = Behind

C5_Witness ==
    /\ Ran("split_after") /\ OnNode /\ last.ok /\ last.idx = Pos
    /\ Pos = 1 /\ Len(last.fwd) = 4
    /\ Len(Cells(Returned)) = 2 /\ Len(Cells(Mine)) = 2

\* C6: split_before and split_after called at Ghost each return a deque
\* holding all elements of the cursor's deque in their original order and
\* leave the cursor's deque empty (head and tail empty, len 0) with the
\* cursor still at Ghost.
C6_SplitAtGhost ==
    ((Ran("split_before") \/ Ran("split_after")) /\ AtGhost) =>
        /\ Returned = last.dq
        /\ Cells(Returned) = last.fwd
        /\ Mine = EmptyDeque
        /\ cursor.current = None
        /\ cursor.index = last.idx

C6_Witness ==
    /\ Ran("split_after") /\ AtGhost /\ last.ok
    /\ Len(last.fwd) = 3 /\ Len(Cells(Returned)) = 3 /\ Mine = EmptyDeque

\* C7: with the cursor on a node c of a deque P ++ [c] ++ S and a non-empty
\* deque O, splice_before(O) makes the cursor's deque read
\* P ++ O ++ [c] ++ S and splice_after(O) makes it read P ++ [c] ++ O ++ S,
\* front to back and, reversed, back to front; the cursor stays on c.
C7_SpliceAtNode ==
    (OnNode /\ last.ok /\ last.ifwd # <<>>) =>
        /\ Ran("splice_before") =>
              /\ Cells(Mine) = Before \o last.ifwd \o <<last.cur>> \o Behind
              /\ CellsBack(Mine) = Reverse(Cells(Mine))
              /\ cursor.current = last.cur
        /\ Ran("splice_after") =>
              /\ Cells(Mine) = Before \o <<last.cur>> \o last.ifwd \o Behind
              /\ CellsBack(Mine) = Reverse(Cells(Mine))
              /\ cursor.current = last.cur

C7_Witness ==
    /\ Ran("splice_before") /\ OnNode /\ last.ok
    /\ Len(last.fwd) = 3 /\ Pos = 1 /\ Len(last.ifwd) = 1
    /\ Len(Cells(Mine)) = 4 /\ Position(Cells(Mine), cursor.current) = 2

\* C8: with the cursor at Ghost on a non-empty deque D and a non-empty deque
\* O, splice_before(O) makes the deque read D ++ O and splice_after(O) makes
\* it read O ++ D.
C8_SpliceAtGhost ==
    (AtGhost /\ last.ok /\ last.fwd # <<>> /\ last.ifwd # <<>>) =>
        /\ Ran("splice_before") =>
              /\ Cells(Mine) = last.fwd \o last.ifwd
              /\ CellsBack(Mine) = Reverse(Cells(Mine))
              /\ next[last.dq.tail] = last.inp.head
        /\ Ran("splice_after") =>
              /\ Cells(Mine) = last.ifwd \o last.fwd
              /\ CellsBack(Mine) = Reverse(Cells(Mine))
              /\ prev[last.dq.head] = last.inp.tail

C8_Witness ==
    /\ Ran("splice_after") /\ AtGhost /\ last.ok
    /\ Len(last.fwd) = 2 /\ Len(last.ifwd) = 2 /\ Len(Cells(Mine)) = 4

\* C9, as the claim states it: with the cursor at Ghost, splice_before(other)
\* puts other's elements at the head side of the cursor's deque and
\* splice_after(other) puts them at the tail side.
C9_AsClaimed ==
    (AtGhost /\ last.ok /\ last.ifwd # <<>>) =>
        /\ Ran("splice_before") => Mine.head = last.inp.head
        /\ Ran("splice_after") => Mine.tail = last.inp.tail

\* C9, amended: with the cursor at Ghost, splice_before(other) appends
\* other's elements at the tail side of the cursor's deque and
\* splice_after(other) prepends them at the head side.
C9_GhostSides ==
    (AtGhost /\ last.ok /\ last.ifwd # <<>>) =>
        /\ Ran("splice_before") =>
              /\ Mine.tail = last.inp.tail
              /\ Mine.head = (IF last.fwd = <<>> THEN last.inp.head ELSE last.dq.head)
              /\ SubSeq(Cells(Mine), Len(last.fwd) + 1, Len(Cells(Mine))) = last.ifwd
        /\ Ran("splice_after") =>
              /\ Mine.head = last.inp.head
              /\ Mine.tail = (IF last.fwd = <<>> THEN last.inp.tail ELSE last.dq.tail)
              /\ SubSeq(Cells(Mine), 1, Len(last.ifwd)) = last.ifwd

C9_Witness ==
    /\ Ran("splice_before") /\ AtGhost /\ last.ok
    /\ Len(last.fwd) = 2 /\ Len(last.ifwd) = 1
    /\ Mine.tail = last.inp.tail /\ Mine.head = last.dq.head

\* C10: after splice_before(other) or splice_after(other) at any cursor
\* position, the cursor's deque len equals its previous len plus other's len
\* (splicing an empty other changes nothing, splicing into an empty deque
\* makes it exactly other), the spliced-in deque owns no nodes (its drop
\* frees none of them), and a cursor that was at Ghost is still at Ghost.
C10_SpliceLen ==
    ((Ran("splice_before") \/ Ran("splice_after")) /\ last.ok /\ (OnNode \/ AtGhost)) =>
        /\ Mine.len = last.dq.len + last.inp.len
        /\ last.ifwd = <<>> => (Mine = last.dq /\ Cells(Mine) = last.fwd)
        /\ last.fwd = <<>> => (Mine = last.inp /\ Cells(Mine) = last.ifwd)
        /\ Range(last.ifwd) \subseteq alloc
        /\ Range(Cells(Mine)) = Range(last.fwd) \cup Range(last.ifwd)
        /\ AtGhost => (cursor.current = None /\ cursor.index = last.idx)

C10_Witness ==
    /\ Ran("splice_after") /\ OnNode /\ last.ok
    /\ Len(last.fwd) = 2 /\ Len(last.ifwd) = 2 /\ Mine.len = 4

\* C11: a cursor freshly obtained from cursor_mut is at Ghost (current none,
\* index none); move_next from Ghost moves to the head with index 0 if the
\* deque is not empty and stays at Ghost if it is; from the node at index i
\* (one of the indices 0..len-1 of the deque) it moves to the successor with
\* index i+1, or to Ghost if there is no successor; the deque is left as it
\* was.  Step by step, len+1 calls from Ghost visit the positions 0..len-1
\* in order and return to Ghost.
C11_MoveNext ==
    /\ Ran("cursor_mut") => (cursor.current = None /\ cursor.index = NoIndex)
    /\ (Ran("move_next") /\ last.ok) =>
          /\ Mine = last.dq /\ Cells(Mine) = last.fwd
          /\ AtGhost =>
                IF last.fwd # <<>>
                THEN cursor.current = last.dq.head /\ cursor.index = 0
                     /\ Position(Cells(Mine), cursor.current) = 0
                ELSE cursor.current = None /\ cursor.index = NoIndex
          /\ (OnNode /\ last.idx \in 0..(last.dq.len - 1)) =>
                IF Behind # <<>>
                THEN cursor.current = Behind[1] /\ cursor.index = last.idx + 1
                     /\ Position(Cells(Mine), cursor.current) = Pos + 1
                ELSE cursor.current = None /\ cursor.index = NoIndex

C11_Witness ==
    /\ Ran("move_next") /\ OnNode /\ last.ok /\ last.idx = Pos
    /\ Len(last.fwd) = 3 /\ Pos = 1
    /\ cursor.index = 2 /\ cursor.current = last.fwd[3]

\* C12: move_prev from Ghost moves to the tail with index len-1 if the deque
\* is not empty and stays at Ghost if it is; from the node at index i (one
\* of the indices 0..len-1 of the deque) it moves to the predecessor with
\* index i-1, or to Ghost (current none, index none) if there is no
\* predecessor; the deque is left as it was.
C12_MovePrev ==
    (Ran("move_prev") /\ last.ok) =>
        /\ Mine = last.dq /\ Cells(Mine) = last.fwd
        /\ AtGhost =>
              IF last.fwd # <<>>
              THEN cursor.current = last.dq.tail /\ cursor.index = last.dq.len - 1
                   /\ Position(Cells(Mine), cursor.current) = Len(last.fwd) - 1
              ELSE cursor.current = None /\ cursor.index = NoIndex
        /\ (OnNode /\ last.idx \in 0..(last.dq.len - 1)) =>
              IF Before # <<>>
              THEN cursor.current = Before[Len(Before)] /\ cursor.index = last.idx - 1
                   /\ Position(Cells(Mine), cursor.current) = Pos - 1
              ELSE cursor.current = None /\ cursor.index = NoIndex

\* C13: peek_next, peek_prev and current never change the cursor's position,
\* its index or the deque's head, tail, len and links; on a node peek_next
\* and peek_prev return the successor's and the predecessor's value (none if
\* there is none), at Ghost peek_next returns the head's value and peek_prev
\* the tail's value (none if the deque is empty), and current returns none
\* exactly at Ghost.
Peeks == {"current", "peek_next", "peek_prev"}
Unmoved == UNCHANGED <<next, prev, value, alloc, deques, live, cursor>>
RefTo(n) ==
    /\ last.ref = n
    /\ last.ret = (IF n = None THEN None ELSE value[n])
C13_PeeksReturn ==
    (last.name \in Peeks /\ status = "running" /\ last.ok) =>
        /\ cursor.current = last.cur /\ cursor.index = last.idx
        /\ Mine = last.dq
        /\ Cells(Mine) = last.fwd /\ CellsBack(Mine) = Reverse(last.fwd)
        /\ Ran("current") => RefTo(last.cur)
        /\ (Ran("peek_next") /\ OnNode) =>
              RefTo(IF Behind = <<>> THEN None ELSE Behind[1])
        /\ (Ran("peek_prev") /\ OnNode) =>
              RefTo(IF Before = <<>> THEN None ELSE Before[Len(Before)])
        /\ (Ran("peek_next") /\ AtGhost) =>
              RefTo(IF last.fwd = <<>> THEN None ELSE last.fwd[1])
        /\ (Ran("peek_prev") /\ AtGhost) =>
              RefTo(IF last.fwd = <<>> THEN None ELSE last.fwd[Len(last.fwd)])
C13_Peeks ==
    /\ []C13_PeeksReturn
    /\ [][last'.name \in Peeks => Unmoved]_vars

C13_Witness ==
    /\ Ran("peek_next") /\ AtGhost /\ last.ok
    /\ Len(last.fwd) = 3 /\ last.ref = last.fwd[1] /\ last.ret = 1

----------------------------------------------------------------------------
\* The Vector now and its elements; the last operation on it was op and ran
\* to its end.
VNow == VMem(build)
Elems == Held(VNow)
VRan(op) == last.name = op /\ status = "running"
\* The sequence s without its element at the 0-based position i, and with v
\* put in at position i.
Without(s, i) == SubSeq(s, 1, i) \o SubSeq(s, i + 2, Len(s))
With(s, i, v) == SubSeq(s, 1, i) \o <<v>> \o SubSeq(s, i + 1, Len(s))
\* The values that have come in and not gone out again.
Outstanding(a) ==
    {t \in Tokens : a.pushed[t] > a.given[t] + a.torn[t]}

\* C14: for index < len, remove(index) returns the element at index and
\* leaves the vector with len - 1 elements: the former elements with that
\* one deleted, in their original order.
C14_Remove ==
    (VRan("remove") /\ last.ok /\ last.index < last.vec.len) =>
        /\ last.ret = <<last.held[last.index + 1]>>
        /\ vec.len = last.vec.len - 1
        /\ Elems = Without(last.held, last.index)

\* C15: for index <= len, insert(index, v) on elements E leaves the vector
\* as E[0..index] ++ [v] ++ E[index..len] with len increased by 1, whether or
\* not the buffer had to grow; insert(len, v) has the same effect as push(v).
C15_Insert ==
    /\ (VRan("insert") /\ last.index <= last.vec.len) =>
          /\ Elems = With(last.held, last.index, last.value)
          /\ vec.len = last.vec.len + 1
    /\ (status = "running" /\ VecFree) =>
          \A v \in NewValues : insert(VNow, vec.len, v) = push(VNow, v)

C15_Witness ==
    /\ VRan("insert") /\ last.ok /\ last.grew /\ ~vec.zst
    /\ last.vec.len = 2 /\ last.index = 1
    /\ Elems = <<last.held[1], last.value, last.held[2]>>

\* C16: for any sequence of push and pop, pop returns the most recently
\* pushed value not yet popped and decrements len by 1, pop on an empty
\* vector returns None and leaves len at 0, and push increments len by 1 and
\* leaves all earlier elements unchanged, also when it makes the buffer grow.
MostRecent(a) == CHOOSE t \in Outstanding(a) : \A u \in Outstanding(a) : u <= t
C16_PushPop ==
    /\ VRan("pop") =>
          IF Outstanding(last.acct) = {}
          THEN last.vec.len = 0 /\ last.ret = <<>> /\ vec.len = 0
          ELSE /\ last.ret = <<MostRecent(last.acct)>>
               /\ vec.len = last.vec.len - 1
               /\ Elems = SubSeq(last.held, 1, vec.len)
    /\ VRan("push") =>
          /\ vec.len = last.vec.len + 1
          /\ SubSeq(Elems, 1, last.vec.len) = last.held
          /\ Elems[vec.len] = last.value

C16_Witness ==
    /\ VRan("pop") /\ ~vec.zst
    /\ last.vec.len = 3 /\ last.ret = <<3>> /\ acct.pushed[4] = 1 /\ acct.given[4] = 1

\* C17: in every state reachable by push, pop, insert, remove and drain on a
\* Vector of a non-zero-sized type, len <= cap and every slot at index < len
\* holds an initialized element that the Vector owns.
C17_Owns ==
    (vec.alive /\ ~vec.zst /\ status = "running") =>
        /\ vec.len <= vec.cap
        /\ AllOwned(VNow, 0, vec.len)

\* C18: insert(index, v) with index > len and remove(index) with index >= len
\* halt with a panic before any mutation: len, capacity and every element
\* are unchanged at the point of failure, and the buffer is not grown.
C18_OutOfBounds ==
    (\/ (last.name = "insert" /\ last.index > last.vec.len)
     \/ (last.name = "remove" /\ last.index >= last.vec.len)) =>
        /\ status = "panic"
        /\ vec = last.vec /\ acct = last.acct
        /\ ~last.grew

C18_Witness ==
    /\ last.name = "insert" /\ last.index > last.vec.len /\ status = "panic"
    /\ ~vec.zst /\ vec.len = 2 /\ vec.cap = 2 /\ Len(vec.buf) = 2

\* C19: immediately after drain() on a Vector holding e0..e(n-1) its len is
\* 0, and what the drain yields from the front is e0, e1, .. in that order,
\* what it yields from the back e(n-1), e(n-2), ..; it yields each element
\* once and then None.
C19_Drain ==
    /\ VRan("drain") => (vec.len = 0 /\ iter.had = last.held)
    /\ (iter.kind = "drain" /\ status = "running") =>
          /\ vec.len = 0
          /\ Len(iter.front) + Len(iter.back) <= Len(iter.had)
          /\ \A i \in 1..Len(iter.front) : iter.front[i] = iter.had[i]
          /\ \A i \in 1..Len(iter.back) : iter.back[i] = iter.had[Len(iter.had) + 1 - i]
          /\ (last.name \in {"drain_next", "drain_next_back"} /\ last.ret = <<>>) =>
                Len(iter.front) + Len(iter.back) = Len(iter.had)

C19_Witness ==
    /\ VRan("drain_next") /\ iter.kind = "drain" /\ iter.ok /\ ~vec.zst
    /\ Len(iter.had) = 3 /\ iter.front = iter.had /\ iter.back = <<>>

\* C20: for any interleaving of next and next_back on a Drain followed by
\* dropping it at any point, each element that was in the Vector when
\* drain() was called is either yielded to the caller exactly once or torn
\* down exactly once by the Drain's destruction, never both and never
\* neither, and the Vector remains empty with its buffer intact.
C20_DrainOnce ==
    /\ (iter.kind = "drain" /\ iter.ok /\ status = "running") =>
          /\ \A v \in Range(iter.had) :
                acct.given[v] + acct.torn[v] <= acct.pushed[v]
          /\ vec.len = 0
    /\ (VRan("drain_drop") /\ last.iter.ok) =>
          /\ Outstanding(acct) = {}
          /\ \A v \in Range(last.iter.had) :
                /\ acct.given[v] + acct.torn[v] = acct.pushed[v]
                /\ acct.given[v] - last.acct.given[v] = 0
          /\ iter.kind = "none"
          /\ vec.alive /\ vec.len = 0
          /\ vec.cap = last.vec.cap /\ Len(vec.buf) = Len(last.vec.buf)

C20_Witness ==
    /\ VRan("drain_drop") /\ last.iter.ok /\ ~vec.zst
    /\ Len(last.iter.had) = 3
    /\ Len(last.iter.front) = 1 /\ Len(last.iter.back) = 1
    /\ acct.torn[last.iter.had[2]] = 1 /\ acct.given[last.iter.had[2]] = 0

\* What an IntoIter over a sound Vector has done so far: what it yielded from
\* the front and from the back are the elements from either end, in order
\* from the front and in reverse from the back, no element twice, all of
\* them once next or next_back has returned None; the buffer is not released
\* while the IntoIter lives; once it is dropped every element has gone to the
\* caller or been torn down, once, and the buffer has been released once.
C21_IntoIterState ==
    /\ (VRan("into_iter") /\ last.ok) => (iter.had = last.held /\ iter.ok)
    /\ (iter.kind = "into_iter" /\ iter.ok /\ status = "running") =>
          /\ Len(iter.front) + Len(iter.back) <= Len(iter.had)
          /\ \A i \in 1..Len(iter.front) : iter.front[i] = iter.had[i]
          /\ \A i \in 1..Len(iter.back) : iter.back[i] = iter.had[Len(iter.had) + 1 - i]
          /\ (last.name \in {"into_next", "into_next_back"} /\ last.ret = <<>>) =>
                Len(iter.front) + Len(iter.back) = Len(iter.had)
          /\ \A v \in Range(iter.had) :
                acct.given[v] + acct.torn[v] <= acct.pushed[v]
          /\ acct.freed = 0
          /\ ~vec.zst => Len(vec.buf) = vec.cap
    /\ (VRan("into_iter_drop") /\ last.iter.ok) =>
          /\ Outstanding(acct) = {}
          /\ \A v \in Range(last.iter.had) :
                /\ acct.given[v] + acct.torn[v] = acct.pushed[v]
                /\ acct.given[v] = last.acct.given[v]
          /\ iter.kind = "none"
          /\ acct.freed = IF last.vec.cap # 0 /\ ~last.vec.zst THEN 1 ELSE 0

\* C21: Vector::into_iter yields every element of the vector exactly once
\* (next from the front in order, next_back from the back), tears down the
\* not-yet-yielded elements when the iterator is dropped, and releases the
\* buffer exactly once and only after every element has been yielded or
\* torn down.
C21_IntoIter ==
    /\ []C21_IntoIterState
    /\ [][(iter.kind = "into_iter" /\ iter.ok /\ acct'.freed # acct.freed) =>
             /\ acct'.freed = acct.freed + 1
             /\ iter'.kind = "none"
             /\ \A v \in Range(iter.had) :
                   acct'.given[v] + acct'.torn[v] = acct'.pushed[v]]_vars

C21_Witness ==
    /\ VRan("into_iter_drop") /\ last.iter.ok /\ ~vec.zst
    /\ Len(last.iter.had) = 3
    /\ Len(last.iter.front) = 1 /\ Len(last.iter.back) = 1
    /\ acct.torn[last.iter.had[2]] = 1 /\ acct.given[last.iter.had[2]] = 0
    /\ acct.freed = 1 /\ vec.buf = <<>>

\* C22: for any sequence of push, pop, insert and remove followed by
\* destruction of the Vector, every value ever pushed or inserted is either
\* returned to the caller (by pop or remove) or torn down by the destruction,
\* exactly once in total; destruction never tears down an uninitialized or
\* already moved-out slot (no invalid access, ub), and the buffer is released
\* exactly once after the elements.
C22_Destruction ==
    last.name = "vector_drop" =>
        /\ status = "running" /\ ~ub
        /\ \A t \in Tokens : acct.given[t] + acct.torn[t] = acct.pushed[t]
        /\ ~vec.alive /\ vec.buf = <<>>
        /\ acct.freed = IF last.vec.cap # 0 /\ ~last.vec.zst THEN 1 ELSE 0

\* C23: for any sequence of push/pop operations and cursor move/split/splice
\* operations followed by destruction of every deque involved, every node
\* allocated by a push is freed exactly once: no node is read, written or
\* freed after it was freed (ub), and once every deque is destroyed no node
\* is left allocated.
C23_FreedOnce ==
    /\ ~ub
    /\ last.name = "destroy" => (status = "running" /\ live = {} /\ alloc = {})

----------------------------------------------------------------------------
\* The one deque of the runs that tell values apart, and what the log says:
\* the values that went in by a push, the values that came out by a pop, in
\* the order of the calls; the values in the deque before the i-th entry of
\* the log; whether all entries of the log are calls of ops.
Only == CHOOSE d \in live : TRUE
Ins(lg) == [i \in 1..Len(SelectSeq(lg, IsPush)) |-> SelectSeq(lg, IsPush)[i][2]]
Outs(lg) == [i \in 1..Len(SelectSeq(lg, IsPop)) |-> SelectSeq(lg, IsPop)[i][2]]
Inside(lg, i) ==
    {lg[j][2] : j \in {k \in 1..(i - 1) : IsPush(lg[k])}}
    \ {lg[j][2] : j \in {k \in 1..(i - 1) : IsPop(lg[k])}}
OnlyCalls(lg, ops) == \A i \in 1..Len(lg) : lg[i][1] \in ops

\* C24: for every sequence of push_back and pop_front operations on a
\* Dequeue, pop_front returns the values in exactly the order they were
\* pushed (FIFO), and None only when every value pushed has been popped.
C24_Fifo ==
    (OnlyCalls(log, {"push_back", "pop_front"}) /\ status = "running") =>
        /\ Len(Outs(log)) <= Len(Ins(log))
        /\ \A i \in 1..Len(Outs(log)) : Outs(log)[i] = Ins(log)[i]
        /\ (last.name = "pop_front" /\ last.ret = None) => Outs(log) = Ins(log)

C24_Witness ==
    /\ Ran("pop_front") /\ last.ret = 2
    /\ log = << <<"push_back", 1>>, <<"push_back", 2>>, <<"pop_front", 1>>,
                <<"push_back", 3>>, <<"pop_front", 2>> >>

\* C25: for every sequence of push_front and pop_front operations on a
\* Dequeue, pop_front returns the most recently pushed value that has not
\* been popped yet (LIFO), and None only when there is no such value.
C25_Lifo ==
    (OnlyCalls(log, {"push_front", "pop_front"}) /\ status = "running") =>
        /\ \A i \in 1..Len(log) :
              IsPop(log[i]) =>
                  /\ log[i][2] \in Inside(log, i)
                  /\ \A v \in Inside(log, i) : v <= log[i][2]
        /\ (last.name = "pop_front" /\ last.ret = None) =>
              Inside(log, Len(log) + 1) = {}

C25_Witness ==
    /\ Ran("pop_front") /\ last.ret = 1
    /\ log = << <<"push_front", 1>>, <<"push_front", 2>>, <<"pop_front", 2>>,
                <<"push_front", 3>>, <<"pop_front", 3>>, <<"pop_front", 1>> >>

\* C26: after any sequence of push_front, push_back, pop_front and pop_back
\* on a Dequeue, len() equals the number of pushes minus the number of pops
\* that returned a value and is_empty() holds exactly when that number is 0;
\* a pop on an empty deque returns None and leaves head, tail and len
\* unchanged.
C26_Len ==
    (live # {} /\ status = "running") =>
        /\ Len(Outs(log)) <= Len(Ins(log))
        /\ len(Now, Only) = Len(Ins(log)) - Len(Outs(log))
        /\ is_empty(Now, Only) <=> Len(Ins(log)) - Len(Outs(log)) = 0
        /\ last.name \in {"pop_front", "pop_back"} =>
              /\ last.ret = None <=> last.dq.len = 0
              /\ last.dq.len = 0 => deques[Only] = last.dq

C26_Witness ==
    /\ Ran("pop_back") /\ last.ret = None /\ Len(Ins(log)) = 3 /\ Len(Outs(log)) = 3
    /\ log[1][1] = "push_front" /\ log[2][1] = "push_back" /\ log[3][1] = "pop_front"
    /\ deques[Only] = EmptyDeque

\* What front, back, front_mut and back_mut return and write: front (back)
\* returns the value the next pop_front (pop_back) would return, None on an
\* empty deque; a write through front_mut (back_mut) is to the value of the
\* first (last) element.
C29_LooksReturn ==
    /\ Ran("front") =>
          /\ last.ret = pop_front(Now, Only).ret
          /\ last.ret = None <=> last.dq.len = 0
    /\ Ran("back") =>
          /\ last.ret = pop_back(Now, Only).ret
          /\ last.ret = None <=> last.dq.len = 0
    /\ Ran("front_mut") =>
          IF last.dq.len = 0 THEN last.ret = None /\ last.ref = None
          ELSE /\ last.ref = deques[Only].head
               /\ log[Len(log)][1] = "front_mut"
               /\ pop_front(Now, Only).ret = log[Len(log)][2]
    /\ Ran("back_mut") =>
          IF last.dq.len = 0 THEN last.ret = None /\ last.ref = None
          ELSE /\ last.ref = deques[Only].tail
               /\ log[Len(log)][1] = "back_mut"
               /\ pop_back(Now, Only).ret = log[Len(log)][2]

\* A step that changes no link, no Dequeue and no cursor, and no value but
\* that of the cell n.
OnlyValueOf(n) ==
    /\ UNCHANGED <<next, prev, alloc, deques, live, cursor>>
    /\ \A k \in Nodes : k # n => value'[k] = value[k]

\* C29: front() returns the value the next pop_front would return and back()
\* the value the next pop_back would return, both None on an empty deque,
\* without changing head, tail, len or links; a write through
\* front_mut()/back_mut() changes only the first/last element's value.
C29_Looks ==
    /\ []C29_LooksReturn
    /\ [][last'.name \in {"front", "back"} => Unmoved]_vars
    /\ [][last'.name = "front_mut" => OnlyValueOf(deques[Only].head)]_vars
    /\ [][last'.name = "back_mut" => OnlyValueOf(deques[Only].tail)]_vars

C29_Witness ==
    /\ Ran("back_mut") /\ deques[Only].len = 3 /\ last.ret = 2
    /\ log = << <<"push_back", 1>>, <<"push_back", 2>>, <<"push_front", 3>>,
                <<"back_mut", 4>> >>
    /\ value[deques[Only].tail] = 4 /\ value[deques[Only].head] = 3

\* C27: for any Dequeue state reachable through push/pop and cursor
\* split/splice operations, the sequence produced by iter() front to back
\* equals the reverse of the sequence produced by iter().rev() back to
\* front.
C27_CheckLinks ==
    status = "running" =>
        \A d \in live :
            Collect(Now, Iter(Now, d), UsizeMax + 1)
                = Reverse(CollectRev(Now, Iter(Now, d), UsizeMax + 1))

\* What the iterator has yet to yield according to its size_hint, and what
\* its next calls of next and next_back would return.
Hint ==
    IF iter.kind = "into_iter" THEN len(Now, iter.dq) ELSE Iter_size_hint(iter.it)[1]
WouldYield ==
    IF iter.kind = "into_iter"
    THEN {pop_front(Now, iter.dq).ret, pop_back(Now, iter.dq).ret}
    ELSE IF iter.kind = "iter"
    THEN {Iter_next(Now, iter.it).ret, Iter_next_back(Now, iter.it).ret}
    ELSE {IterMut_next(Now, iter.it).ret, IterMut_next_back(Now, iter.it).ret}

\* C28: for a Dequeue of n elements built by pushes and any interleaving of
\* next and next_back on iter(), iter_mut() or into_iter(), exactly n items
\* are yielded in total: next yields the elements from the front in order,
\* next_back yields them from the back in reverse order, no element is
\* yielded twice, and afterwards both calls return None; size_hint always
\* equals the number of items not yet yielded.
C28_DoubleEnded ==
    (iter.kind \in {"iter", "iter_mut", "into_iter"} /\ status = "running") =>
        /\ iter.ok /\ ~ub
        /\ Len(iter.front) + Len(iter.back) <= Len(iter.had)
        /\ \A i \in 1..Len(iter.front) : iter.front[i] = iter.had[i]
        /\ \A i \in 1..Len(iter.back) : iter.back[i] = iter.had[Len(iter.had) + 1 - i]
        /\ Hint = Len(iter.had) - Len(iter.front) - Len(iter.back)
        /\ (last.name \in {"next", "next_back"} /\ last.ret = None) =>
              Len(iter.front) + Len(iter.back) = Len(iter.had)
        /\ Len(iter.front) + Len(iter.back) = Len(iter.had) => WouldYield = {None}
        /\ Len(iter.front) + Len(iter.back) < Len(iter.had) => None \notin WouldYield

C28_Witness ==
    /\ iter.kind = "iter_mut" /\ Ran("next_back") /\ last.ret = None
    /\ Len(iter.had) = 3 /\ Len(iter.front) = 1 /\ Len(iter.back) = 2
    /\ iter.had = <<iter.front[1], iter.back[2], iter.back[1]>>
    /\ Cardinality(Range(iter.had)) = 3

\* The element sequences of the two Dequeues last compared, the positions at
\* which their elements are not equal, and the first of them.
Left == Values_of(Now, last.fwd)
Right == Values_of(Now, last.ifwd)
Shorter == IF Len(Left) <= Len(Right) THEN Len(Left) ELSE Len(Right)
Differing == {i \in 1..Shorter : ~elem_eq(Left[i], Right[i])}
FirstDiffering == CHOOSE i \in Differing : \A j \in Differing : i <= j

\* C30: two Dequeues are equal exactly when they have the same length and
\* equal elements position by position, and <, >, <=, >= follow the
\* lexicographic order of their element sequences (a proper prefix is less
\* than the longer deque); when the first differing pair of elements is
\* incomparable, none of <, >, <=, >= holds and no failure occurs.
C30_Compare ==
    last.name = "compare" =>
        /\ status = "running"
        /\ last.ret.eq <=> (Len(Left) = Len(Right) /\ Differing = {})
        /\ IF Differing = {}
           THEN /\ last.ret.lt <=> Len(Left) < Len(Right)
                /\ last.ret.le <=> Len(Left) <= Len(Right)
                /\ last.ret.gt <=> Len(Left) > Len(Right)
                /\ last.ret.ge <=> Len(Left) >= Len(Right)
           ELSE LET x == Left[FirstDiffering]
                    y == Right[FirstDiffering]
                IN  IF x = NaN \/ y = NaN
                    THEN ~last.ret.lt /\ ~last.ret.le /\ ~last.ret.gt /\ ~last.ret.ge
                    ELSE /\ last.ret.lt <=> x < y
                         /\ last.ret.le <=> x < y
                         /\ last.ret.gt <=> x > y
                         /\ last.ret.ge <=> x > y
        /\ last.ret.cmp # "None" =>
              /\ last.ret.cmp = "Less" <=> last.ret.lt
              /\ last.ret.cmp = "Equal" <=> last.ret.eq
              /\ last.ret.cmp = "Greater" <=> last.ret.gt

C30_Witness ==
    /\ Ran("compare") /\ Left = <<1, NaN>> /\ Right = <<1, 2>>
    /\ ~last.ret.eq /\ ~last.ret.lt /\ ~last.ret.le /\ ~last.ret.gt /\ ~last.ret.ge

----------------------------------------------------------------------------
\* The values appended to and popped from the Queue, in the order of the
\* calls.
IsQueuePop(e) == e[1] = "pop"
Appended == [i \in 1..Len(SelectSeq(log, IsAppend)) |-> SelectSeq(log, IsAppend)[i][2]]
Popped == [i \in 1..Len(SelectSeq(log, IsQueuePop)) |-> SelectSeq(log, IsQueuePop)[i][2]]

\* C31: for any sequence of append and pop on the Queue, every call
\* returns, pop returns the values in the order they were appended, len()
\* is the number of appends minus the number of pops that returned a value,
\* pop on an empty queue returns None and leaves len as it was, and once the
\* queue has been emptied head and tail are null, so that the next append
\* makes a one-element queue.
C31_Queue ==
    queue.alive =>
        /\ status = "running"
        /\ Len(Popped) <= Len(Appended)
        /\ \A i \in 1..Len(Popped) : Popped[i] = Appended[i]
        /\ queue.len = Len(Appended) - Len(Popped)
        /\ QValues(queue) = SubSeq(Appended, Len(Popped) + 1, Len(Appended))
        /\ (last.name = "pop" /\ last.ret = None) =>
              (Popped = Appended /\ queue.len = last.len)
        /\ Popped = Appended => (queue.head = None /\ queue.tail = None)
        /\ (last.name = "append" /\ last.values = <<>>) =>
              /\ queue.head # None /\ queue.head = queue.tail
              /\ queue.next[queue.head] = None

----------------------------------------------------------------------------
\* The tree in the current state and what contains returns on it.
TreeNow == TMem(SomeBuild(build))
TRan(op) == last.name = op /\ last.ok

\* C32: on a BinaryTree, insert(v) returns true and increases size() by 1
\* exactly when v was not in the tree; an insert of a value already present
\* returns false and leaves size() and the contained values as they were;
\* after insert(v), contains(v) is true and contains(w) is what it was for
\* every other w.
C32_Insert ==
    TRan("insert") =>
        /\ status = "running" /\ ~ub
        /\ last.ret <=> last.value \notin last.had
        /\ tree.size = last.size + (IF last.value \notin last.had THEN 1 ELSE 0)
        /\ Contains(TreeNow) = last.had \cup {last.value}
        /\ \A w \in Keys : ~tree_contains(TreeNow, w).ub

C32_Witness ==
    /\ TRan("insert") /\ last.ret = FALSE /\ last.value = 2
    /\ last.had = {1, 2, 3} /\ tree.size = 3 /\ tree.glue
    /\ tree.value[tree.root] = 2

\* C33: on a BinaryTree, remove(v) returns true and decreases size() by 1
\* exactly when v was in the tree; contains(v) is false afterwards and every
\* other value that was contained still is, whether the node removed has no
\* child, one child or two children, the root included; a remove of a value
\* that is absent returns false and changes nothing.
C33_Remove ==
    TRan("remove") =>
        /\ status = "running" /\ ~ub
        /\ last.ret <=> last.value \in last.had
        /\ tree.size = last.size - (IF last.value \in last.had THEN 1 ELSE 0)
        /\ Contains(TreeNow) = last.had \ {last.value}
        /\ tree.dead = {}
        /\ \A w \in Keys : ~tree_contains(TreeNow, w).ub

\* C34: after any sequence of insert and remove on a BinaryTree, iter()
\* yields the values the tree contains, each once, in strictly ascending
\* order, and as many as size() says.
C34_Iter ==
    last.name = "iter" =>
        /\ status = "running" /\ ~ub
        /\ {last.ret[i].value : i \in 1..Len(last.ret)} = last.had
        /\ \A i \in 1..Len(last.ret) : last.ret[i].live
        /\ \A i, j \in 1..Len(last.ret) : i < j => last.ret[i].value < last.ret[j].value
        /\ Len(last.ret) = tree.size

----------------------------------------------------------------------------
\* C35: for an element type that is not zero-sized, the capacity of the
\* Vector is 0 after new, changes only in a push or an insert issued when
\* len = cap, then from 0 to 1 and from any other capacity to its double,
\* and never gets smaller: pop, remove and drain leave it as it is.
C35_CapacityStep ==
    (vec.alive /\ ~vec.zst /\ vec'.cap # vec.cap) =>
        /\ last'.name \in {"push", "insert"}
        /\ vec.len = vec.cap
        /\ vec'.cap = IF vec.cap = 0 THEN 1 ELSE 2 * vec.cap

C35_Capacity ==
    /\ []((last.name = "new" /\ ~vec.zst) => vec.cap = 0)
    /\ [][C35_CapacityStep]_vars

C35_Witness ==
    /\ VRan("insert") /\ ~vec.zst /\ last.grew /\ last.vec.cap = 2 /\ vec.cap = 4
    /\ acct.given[1] = 1

----------------------------------------------------------------------------
\* C36: for a zero-sized element type the capacity of the buffer is the
\* sentinel usize::MAX from its creation on, nothing is ever allocated or
\* deallocated, not at destruction either, and grow is reached only by a
\* push or an insert issued when len is the sentinel, where it halts with
\* 'Capacity overflow' and leaves len and the capacity as they were.
C36_ZeroSized ==
    vec.zst =>
        /\ vec.cap = UsizeMax
        /\ vec.buf = <<>> /\ ~last.grew
        /\ acct.freed = 0
        /\ last.halt = "Capacity overflow" =>
              /\ last.name \in {"push", "insert"}
              /\ last.vec.len = UsizeMax
              /\ vec = last.vec
        /\ (last.name \in {"push", "insert"} /\ last.halt # "Capacity overflow") =>
              last.vec.len < UsizeMax \/ last.halt = "Index out of bounds"

C36_Witness ==
    /\ vec.zst /\ status = "panic" /\ last.name = "insert" /\ last.index = 0
    /\ last.halt = "Capacity overflow" /\ vec.len = UsizeMax
    /\ acct.given[ZstValue] = 1

----------------------------------------------------------------------------
\* The slots Vector::remove touches: the slot it reads the value from and
\* the slots ptr::copy reads and writes.
CopySlots(src, dst, count) == (src..(src + count - 1)) \cup (dst..(dst + count - 1))
RemoveSlots(w, index) == {index} \cup CopySlots(index + 1, index, w.vec.len - index)

\* C37: Vector::remove(index) with index < len reads and writes only the
\* slots at the positions index .. len - 1, and so never a slot at a
\* position >= cap, outside the allocation, also when the Vector is full
\* (len = cap) and when index = len - 1.  (A zero-sized type has no slots.)
C37_RemoveSlots ==
    (last.name = "remove" /\ last.ok /\ ~last.vec.zst /\ last.index < last.vec.len) =>
        /\ RemoveSlots([vec |-> last.vec], last.index)
              \subseteq last.index..(last.vec.len - 1)
        /\ \A s \in RemoveSlots([vec |-> last.vec], last.index) : s < last.vec.cap
        /\ ~ub

----------------------------------------------------------------------------
\* C38: after split_before or split_after at any position of the cursor
\* (Ghost, the head node, an interior node, the tail node) the deque
\* returned and the cursor's deque partition the nodes of the original: no
\* node is reached from the head or the tail of both, none is lost, and the
\* two parts one after the other are the original sequence; split_before on
\* the head node and split_after on the tail node return a deque whose head
\* and tail are both empty.
C38_SplitPartition ==
    ((Ran("split_before") \/ Ran("split_after")) /\ last.ok) =>
        LET out == Range(Cells(Returned)) \cup Range(CellsBack(Returned))
            kept == Range(Cells(Mine)) \cup Range(CellsBack(Mine))
        IN  /\ out \cap kept = {}
            /\ out \cup kept = Range(last.fwd)
            /\ Ran("split_before") => Cells(Returned) \o Cells(Mine) = last.fwd
            /\ Ran("split_after") => Cells(Mine) \o Cells(Returned) = last.fwd
            /\ (Ran("split_before") /\ OnNode /\ last.cur = last.dq.head) =>
                  (Returned.head = None /\ Returned.tail = None)
            /\ (Ran("split_after") /\ OnNode /\ last.cur = last.dq.tail) =>
                  (Returned.head = None /\ Returned.tail = None)

----------------------------------------------------------------------------
\* C39: under any interleaving of push_front, push_back, pop_front,
\* pop_back and clear the Dequeue refines an abstract sequence: the values
\* of the nodes from head along next are the sequence, every pop returns the
\* element the sequence loses (None when it is empty), and after every pop
\* the back-link of the new boundary node is empty.
C39_Refines ==
    (live # {} /\ status = "running") =>
        /\ ~ub
        /\ Values_of(Now, Cells(deques[Only])) = abs
        /\ last.name \in {"pop_front", "pop_back"} =>
              /\ last.ret = None <=> last.abs = <<>>
              /\ (last.name = "pop_front" /\ last.abs # <<>>) => last.ret = last.abs[1]
              /\ (last.name = "pop_back" /\ last.abs # <<>>) =>
                    last.ret = last.abs[Len(last.abs)]
        /\ (last.name = "pop_front" /\ deques[Only].head # None) =>
              prev[deques[Only].head] = None
        /\ (last.name = "pop_back" /\ deques[Only].tail # None) =>
              next[deques[Only].tail] = None

C39_Witness ==
    /\ Ran("pop_back") /\ last.ret = 2 /\ last.abs = <<1, 2, 1, 2>>
    /\ abs = <<1, 2, 1>> /\ next[deques[Only].tail] = None

----------------------------------------------------------------------------
\* A deque that is only traversed: the caller builds it with pushes while
\* no cursor borrows it, then a cursor walks it with move_next and
\* move_prev.  Each move remembers the move (or other step) before it and
\* where the cursor stood before that one.
Was == [was |-> [name |-> last.name, cur |-> last.cur, idx |-> last.idx]]

TravNext ==
    /\ CanRun /\ HasCursor
    /\ Try(LAMBDA m : move_next(m), LAMBDA m : Was @@ Seen("move_next", 0, m))

TravPrev ==
    /\ CanRun /\ HasCursor
    /\ Try(LAMBDA m : move_prev(m), LAMBDA m : Was @@ Seen("move_prev", 0, m))

TraverseNext ==
    \/ New
    \/ PushFront
    \/ PushBack
    \/ CursorMut
    \/ Release
    \/ TravNext
    \/ TravPrev

TraverseSpec == Init /\ [][TraverseNext]_vars

\* The last two steps were a move and then the opposite move, on a
\* non-empty deque.
RoundTrip(first, second) ==
    /\ status = "running"
    /\ last.name = second
    /\ last.was.name = first
    /\ last.dq.len > 0

\* C40: on a non-empty deque that is only traversed, move_next followed by
\* move_prev, and move_prev followed by move_next, bring the cursor back to
\* where it stood, from each of the len + 1 positions: the same current
\* node (or Ghost) and the same index().
C40_RoundTrip ==
    (RoundTrip("move_next", "move_prev") \/ RoundTrip("move_prev", "move_next")) =>
        /\ ~ub
        /\ cursor.current = last.was.cur
        /\ cursor.index = last.was.idx

\* move_next from the tail onto Ghost and move_prev back onto the tail of a
\* deque of three, whose index is 2 again.
C40_Witness ==
    /\ RoundTrip("move_next", "move_prev")
    /\ last.dq.len = 3
    /\ last.was.cur = last.dq.tail
    /\ last.cur = None
    /\ cursor.current = deques[cursor.dq].tail
    /\ cursor.index = 2

====
